---- MODULE Spec2Model ----
(***************************************************************************)
(* A model of the game backend of src/server.js: the SQLite tables as one  *)
(* store value, every Express route as a handler operator computing the    *)
(* store after the request and the response sent, and one action per       *)
(* route.  Node runs requireAuth and the route's callback on one thread    *)
(* without yielding (better-sqlite3 is synchronous), so a handler is one   *)
(* step, except that every SQL statement outside db.transaction commits on *)
(* its own: a handler that writes twice is two steps, and the process may  *)
(* die between them.                                                       *)
(***************************************************************************)
EXTENDS Integers, Sequences, FiniteSets, TLC

VARIABLES
    store,      \* the database: players, cosmetics_catalog, player_cosmetics,
                \* inventory, friend_relationships, player_data
    uuid,       \* how many uuidv4() values were stored, per kind
    running,    \* the handler that has committed a statement and not yet the next
    resp,       \* the last response sent: the route, the status, the error
    issued,     \* history: player id -> every token ever stored for that player
    debited,    \* history: <<player id, cosmetic id>> pairs /cosmetics/buy debited
    race        \* the batch of concurrent /credits/spend requests of SpecRace

vars == <<store, uuid, running, resp, issued, debited, race>>

--------------------------------------------------------------------------
\* Bounds of the model.

MaxPlayers == 2
MaxTokens == 3
MaxCosmetics == 1
MaxCredits == 2
MaxAmount == 2
MaxQuantity == 2
MaxRequests == 3

--------------------------------------------------------------------------
\* Request inputs.  "" is a missing (falsy) body field, 0 a missing token or id.

GameIds == {"g1", "g2"}
Usernames == {"alice", "bob"}
Passwords == {"pw", "pw2"}
ItemNames == {"sword"}
Quantities == (0 - 1) .. MaxQuantity
Metadatas == {"", "m"}
\* The body of /save: not an object, an object without entries, one with an entry.
SaveBodies ==
    {[object |-> FALSE, entries |-> <<>>],
     [object |-> TRUE, entries |-> <<>>],
     [object |-> TRUE, entries |-> << <<"level", 1>> >>]}
Amounts == (0 - 1) .. MaxAmount
Prices == {1}
NoToken == 0
NoPlayer == 0
Idle == [op |-> "idle", player |-> NoPlayer, cosmetic |-> 0]

PlayerIds == 1 .. MaxPlayers
CosmeticIds == 1 .. MaxCosmetics
Tokens == 0 .. MaxTokens

\* Ids the owner may name that no uuidv4() of the model ever is.
UnknownPlayer == MaxPlayers + 1
UnknownCosmetic == MaxCosmetics + 1

--------------------------------------------------------------------------
\* The store and the SQL statements on it.

EmptyFn == [x \in {} |-> 0]

EmptyStore ==
    [players |-> EmptyFn, catalog |-> EmptyFn, cosmetics |-> EmptyFn,
     inventory |-> EmptyFn, friends |-> EmptyFn, data |-> EmptyFn]

Without(f, keys) == [k \in DOMAIN f \ keys |-> f[k]]

\* bcrypt.hashSync / bcrypt.compareSync: a one-way digest that only the same
\* password matches.
hashSync(password) == <<"bcrypt", password>>

compareSync(password, hash) == hash = hashSync(password)

\* UNIQUE(username) in place of UNIQUE(game_id, username).
PlayersUniqueUsername(s, id, game_id, username) ==
    \/ id \in DOMAIN s.players
    \/ \E o \in DOMAIN s.players : s.players[o].username = username

\* INSERT INTO players (id, game_id, username, password_hash, token): credits
\* and banned take their DEFAULT 0; the PRIMARY KEY and UNIQUE(game_id, username)
\* make the statement throw.
PlayersConstraintFails(s, id, game_id, username) ==
    \/ id \in DOMAIN s.players
    \/ \E o \in DOMAIN s.players :
           s.players[o].game_id = game_id /\ s.players[o].username = username

\* Every row gets the same token, drawn once instead of per request.
InsertPlayerSharedToken(s, id, game_id, username, hash, token) ==
    [s EXCEPT !.players = @ @@ (id :> [game_id |-> game_id, username |-> username,
                                      password_hash |-> hash, token |-> 1,
                                      credits |-> 0, banned |-> 0])]

InsertPlayer(s, id, game_id, username, hash, token) ==
    [s EXCEPT !.players = @ @@ (id :> [game_id |-> game_id, username |-> username,
                                      password_hash |-> hash, token |-> token,
                                      credits |-> 0, banned |-> 0])]

\* UPDATE players SET token = ? WHERE id = ?
UpdateToken(s, id, token) ==
    IF id \in DOMAIN s.players
    THEN [s EXCEPT !.players[id].token = token]
    ELSE s

\* UPDATE players SET credits = credits + ? WHERE id = ?  (also credits - ?)
UpdateCreditsBy(s, id, delta) ==
    IF id \in DOMAIN s.players
    THEN [s EXCEPT !.players[id].credits = @ + delta]
    ELSE s

\* UPDATE players SET credits = ? WHERE id = ?
UpdateCreditsTo(s, id, amount) ==
    IF id \in DOMAIN s.players
    THEN [s EXCEPT !.players[id].credits = amount]
    ELSE s

\* The UPDATE of the ban routes as SET banned = ?, token = NULL.
UpdateBannedClearsToken(s, id, flag) ==
    IF id \in DOMAIN s.players
    THEN [s EXCEPT !.players[id].banned = flag, !.players[id].token = NoToken]
    ELSE s

\* UPDATE players SET banned = ? WHERE id = ?
UpdateBanned(s, id, flag) ==
    IF id \in DOMAIN s.players
    THEN [s EXCEPT !.players[id].banned = flag]
    ELSE s

\* SELECT * FROM players WHERE game_id = ? AND username = ?
PlayerByName(s, game_id, username) ==
    LET hit == {id \in DOMAIN s.players :
                    s.players[id].game_id = game_id /\ s.players[id].username = username}
    IN  IF hit = {} THEN NoPlayer ELSE CHOOSE id \in hit : \A o \in hit : id <= o

--------------------------------------------------------------------------
\* Responses.

Response(op, status, error, player, token, credits) ==
    [op |-> op, status |-> status, error |-> error, player |-> player,
     token |-> token, credits |-> credits]

NoResponse == Response("none", 0, "", NoPlayer, NoToken, 0)

Fail(s, op, status, error) ==
    [store |-> s, resp |-> Response(op, status, error, NoPlayer, NoToken, 0)]

Done(s, op, player, token, credits) ==
    [store |-> s, resp |-> Response(op, 200, "", player, token, credits)]

\* What the model keeps of a response once it is sent.
Sent(r) == [op |-> r.op, status |-> r.status, error |-> r.error]

--------------------------------------------------------------------------
\* Helpers of the routes.

\* SELECT * FROM players WHERE token = ?  (.get: the first row, or none)
getPlayer(s, token) ==
    LET hit == {id \in DOMAIN s.players : s.players[id].token = token}
    IN  IF hit = {} THEN NoPlayer ELSE CHOOSE id \in hit : \A o \in hit : id <= o

\* requireAuth without its banned check.
requireAuthIgnoresBan(s, token) ==
    IF token = NoToken
    THEN [status |-> 401, error |-> "Missing token", player |-> NoPlayer]
    ELSE LET player == getPlayer(s, token)
         IN  IF player = NoPlayer
             THEN [status |-> 401, error |-> "Invalid token", player |-> NoPlayer]
             ELSE [status |-> 200, error |-> "", player |-> player]

requireAuth(s, token) ==
    IF token = NoToken
    THEN [status |-> 401, error |-> "Missing token", player |-> NoPlayer]
    ELSE LET player == getPlayer(s, token)
         IN  IF player = NoPlayer
             THEN [status |-> 401, error |-> "Invalid token", player |-> NoPlayer]
             ELSE IF s.players[player].banned # 0
             THEN [status |-> 403, error |-> "Account banned", player |-> NoPlayer]
             ELSE [status |-> 200, error |-> "", player |-> player]

--------------------------------------------------------------------------
\* POST /register and POST /login.  id and token are the uuidv4() values drawn.

Register(s, game_id, username, password, id, token) ==
    IF game_id = "" \/ username = "" \/ password = ""
    THEN Fail(s, "register", 400, "game_id, username, and password required")
    ELSE IF PlayersConstraintFails(s, id, game_id, username)
    THEN Fail(s, "register", 409, "Username already taken in this game")
    ELSE Done(InsertPlayer(s, id, game_id, username, hashSync(password), token),
              "register", id, token, 0)

\* The UPDATE of /login left out: the old token stays.
LoginStoreKeepsToken(s, id, token) == s

LoginStore(s, id, token) == UpdateToken(s, id, token)

\* /login with the token rotated before the banned check.
LoginRotatesBeforeBanCheck(s, game_id, username, password, token) ==
    IF game_id = "" \/ username = "" \/ password = ""
    THEN Fail(s, "login", 400, "game_id, username, and password required")
    ELSE LET player == PlayerByName(s, game_id, username)
         IN  IF player = NoPlayer
                \/ ~compareSync(password, s.players[player].password_hash)
             THEN Fail(s, "login", 401, "Invalid credentials")
             ELSE IF s.players[player].banned # 0
             THEN Fail(LoginStore(s, player, token), "login", 403, "Account banned")
             ELSE Done(LoginStore(s, player, token), "login", player, token,
                       s.players[player].credits)

Login(s, game_id, username, password, token) ==
    IF game_id = "" \/ username = "" \/ password = ""
    THEN Fail(s, "login", 400, "game_id, username, and password required")
    ELSE LET player == PlayerByName(s, game_id, username)
         IN  IF player = NoPlayer
                \/ ~compareSync(password, s.players[player].password_hash)
             THEN Fail(s, "login", 401, "Invalid credentials")
             ELSE IF s.players[player].banned # 0
             THEN Fail(s, "login", 403, "Account banned")
             ELSE Done(LoginStore(s, player, token), "login", player, token,
                       s.players[player].credits)

--------------------------------------------------------------------------
\* POST /credits/spend and POST /credits/add.

InvalidAmount(amount) == amount = 0 \/ amount <= 0

NotEnoughCreditsOffByOne(credits, amount) == credits + 1 < amount

NotEnoughCredits(credits, amount) == credits < amount

\* Spend with the balance check made on the balance the request saw when it was
\* issued, not on the row as it is when the handler runs.
SpendStaleCheck(s, token, amount) ==
    LET auth == requireAuth(s, token)
        seen == IF auth.player \in DOMAIN race.amount
                THEN race.amount[auth.player]
                ELSE s.players[auth.player].credits
    IN  IF auth.status # 200
        THEN Fail(s, "spend", auth.status, auth.error)
        ELSE IF InvalidAmount(amount)
        THEN Fail(s, "spend", 400, "Invalid amount")
        ELSE IF NotEnoughCredits(seen, amount)
        THEN Fail(s, "spend", 400, "Not enough credits")
        ELSE LET after == UpdateCreditsBy(s, auth.player, 0 - amount)
             IN  Done(after, "spend", auth.player, NoToken,
                      after.players[auth.player].credits)

\* /credits/spend answering with the balance it read before its UPDATE.
SpendRepliesOldBalance(s, token, amount) ==
    LET auth == requireAuth(s, token)
    IN  IF auth.status # 200
        THEN Fail(s, "spend", auth.status, auth.error)
        ELSE IF InvalidAmount(amount)
        THEN Fail(s, "spend", 400, "Invalid amount")
        ELSE IF NotEnoughCredits(s.players[auth.player].credits, amount)
        THEN Fail(s, "spend", 400, "Not enough credits")
        ELSE Done(UpdateCreditsBy(s, auth.player, 0 - amount), "spend",
                  auth.player, NoToken, s.players[auth.player].credits)

\* /credits/spend running its UPDATE ahead of its balance check.
SpendDebitsThenRefuses(s, token, amount) ==
    LET auth == requireAuth(s, token)
    IN  IF auth.status # 200
        THEN Fail(s, "spend", auth.status, auth.error)
        ELSE IF InvalidAmount(amount)
        THEN Fail(s, "spend", 400, "Invalid amount")
        ELSE LET after == UpdateCreditsBy(s, auth.player, 0 - amount)
             IN  IF NotEnoughCredits(s.players[auth.player].credits, amount)
                 THEN Fail(after, "spend", 400, "Not enough credits")
                 ELSE Done(after, "spend", auth.player, NoToken,
                           after.players[auth.player].credits)

Spend(s, token, amount) ==
    LET auth == requireAuth(s, token)
    IN  IF auth.status # 200
        THEN Fail(s, "spend", auth.status, auth.error)
        ELSE IF InvalidAmount(amount)
        THEN Fail(s, "spend", 400, "Invalid amount")
        ELSE IF NotEnoughCredits(s.players[auth.player].credits, amount)
        THEN Fail(s, "spend", 400, "Not enough credits")
        ELSE LET after == UpdateCreditsBy(s, auth.player, 0 - amount)
             IN  Done(after, "spend", auth.player, NoToken,
                      after.players[auth.player].credits)

Add(s, token, amount) ==
    LET auth == requireAuth(s, token)
    IN  IF auth.status # 200
        THEN Fail(s, "add", auth.status, auth.error)
        ELSE IF InvalidAmount(amount)
        THEN Fail(s, "add", 400, "Invalid amount")
        ELSE LET after == UpdateCreditsBy(s, auth.player, amount)
             IN  Done(after, "add", auth.player, NoToken,
                      after.players[auth.player].credits)

--------------------------------------------------------------------------
\* POST /inventory/add and POST /inventory/remove.

\* metadata ? JSON.stringify(metadata) : null
StoredMetadata(metadata) == IF metadata = "" THEN <<"null">> ELSE <<"json", metadata>>

\* The upsert with DO UPDATE SET quantity = ..., metadata = excluded.metadata.
UpsertInventoryOverwritesMetadata(s, player, item_name, quantity, metadata) ==
    IF <<player, item_name>> \in DOMAIN s.inventory
    THEN [s EXCEPT !.inventory[<<player, item_name>>] =
                       [quantity |-> @.quantity + quantity, metadata |-> metadata]]
    ELSE [s EXCEPT !.inventory = @ @@ (<<player, item_name>> :>
                                       [quantity |-> quantity, metadata |-> metadata])]

\* INSERT INTO inventory ... ON CONFLICT(player_id, item_name)
\*   DO UPDATE SET quantity = quantity + excluded.quantity
UpsertInventory(s, player, item_name, quantity, metadata) ==
    IF <<player, item_name>> \in DOMAIN s.inventory
    THEN [s EXCEPT !.inventory[<<player, item_name>>].quantity = @ + quantity]
    ELSE [s EXCEPT !.inventory = @ @@ (<<player, item_name>> :>
                                       [quantity |-> quantity, metadata |-> metadata])]

AddItem(s, token, item_name, quantity, metadata) ==
    LET auth == requireAuth(s, token)
    IN  IF auth.status # 200
        THEN Fail(s, "inventory/add", auth.status, auth.error)
        ELSE IF item_name = ""
        THEN Fail(s, "inventory/add", 400, "item_name required")
        ELSE Done(UpsertInventory(s, auth.player, item_name, quantity,
                                  StoredMetadata(metadata)),
                  "inventory/add", auth.player, NoToken, 0)

\* /inventory/remove deleting only when the stored quantity is below the one asked.
RemoveItemKeepsZero(s, token, item_name, quantity) ==
    LET auth == requireAuth(s, token)
        key == <<auth.player, item_name>>
    IN  IF auth.status # 200
        THEN Fail(s, "inventory/remove", auth.status, auth.error)
        ELSE IF item_name = ""
        THEN Fail(s, "inventory/remove", 400, "item_name required")
        ELSE IF key \notin DOMAIN s.inventory
        THEN Fail(s, "inventory/remove", 404, "Item not found")
        ELSE IF s.inventory[key].quantity < quantity
        THEN Done([s EXCEPT !.inventory = Without(@, {key})],
                  "inventory/remove", auth.player, NoToken, 0)
        ELSE Done([s EXCEPT !.inventory[key].quantity = @ - quantity],
                  "inventory/remove", auth.player, NoToken, 0)

\* /inventory/remove with its DELETE written WHERE item_name = ? alone.
RemoveItemOfEveryPlayer(s, token, item_name, quantity) ==
    LET auth == requireAuth(s, token)
        key == <<auth.player, item_name>>
    IN  IF auth.status # 200
        THEN Fail(s, "inventory/remove", auth.status, auth.error)
        ELSE IF item_name = ""
        THEN Fail(s, "inventory/remove", 400, "item_name required")
        ELSE IF key \notin DOMAIN s.inventory
        THEN Fail(s, "inventory/remove", 404, "Item not found")
        ELSE IF s.inventory[key].quantity <= quantity
        THEN Done([s EXCEPT !.inventory =
                       Without(@, {k \in DOMAIN @ : k[2] = item_name})],
                  "inventory/remove", auth.player, NoToken, 0)
        ELSE Done([s EXCEPT !.inventory[key].quantity = @ - quantity],
                  "inventory/remove", auth.player, NoToken, 0)

RemoveItem(s, token, item_name, quantity) ==
    LET auth == requireAuth(s, token)
        key == <<auth.player, item_name>>
    IN  IF auth.status # 200
        THEN Fail(s, "inventory/remove", auth.status, auth.error)
        ELSE IF item_name = ""
        THEN Fail(s, "inventory/remove", 400, "item_name required")
        ELSE IF key \notin DOMAIN s.inventory
        THEN Fail(s, "inventory/remove", 404, "Item not found")
        ELSE IF s.inventory[key].quantity <= quantity
        THEN Done([s EXCEPT !.inventory = Without(@, {key})],
                  "inventory/remove", auth.player, NoToken, 0)
        ELSE Done([s EXCEPT !.inventory[key].quantity = @ - quantity],
                  "inventory/remove", auth.player, NoToken, 0)

--------------------------------------------------------------------------
\* POST /cosmetics/buy and POST /cosmetics/equip.

\* The checks of /cosmetics/buy, in the handler's order; "" when all pass.
BuyNeverOwned(s, player, cosmetic_id) == FALSE

BuyAlreadyOwned(s, player, cosmetic_id) == <<player, cosmetic_id>> \in DOMAIN s.cosmetics

\* The checks of /cosmetics/buy with the credit check ahead of the owned check.
BuyRefusalFundsFirst(s, token, cosmetic_id) ==
    LET auth == requireAuth(s, token)
    IN  IF auth.status # 200
        THEN Fail(s, "buy", auth.status, auth.error)
        ELSE IF cosmetic_id = 0
        THEN Fail(s, "buy", 400, "cosmetic_id required")
        ELSE IF cosmetic_id \notin DOMAIN s.catalog
        THEN Fail(s, "buy", 404, "Cosmetic not found")
        ELSE IF NotEnoughCredits(s.players[auth.player].credits,
                                 s.catalog[cosmetic_id].price)
        THEN Fail(s, "buy", 400, "Not enough credits")
        ELSE IF BuyAlreadyOwned(s, auth.player, cosmetic_id)
        THEN Fail(s, "buy", 409, "Already owned")
        ELSE Done(s, "buy", auth.player, NoToken, 0)

BuyRefusal(s, token, cosmetic_id) ==
    LET auth == requireAuth(s, token)
    IN  IF auth.status # 200
        THEN Fail(s, "buy", auth.status, auth.error)
        ELSE IF cosmetic_id = 0
        THEN Fail(s, "buy", 400, "cosmetic_id required")
        ELSE IF cosmetic_id \notin DOMAIN s.catalog
        THEN Fail(s, "buy", 404, "Cosmetic not found")
        ELSE IF BuyAlreadyOwned(s, auth.player, cosmetic_id)
        THEN Fail(s, "buy", 409, "Already owned")
        ELSE IF NotEnoughCredits(s.players[auth.player].credits,
                                 s.catalog[cosmetic_id].price)
        THEN Fail(s, "buy", 400, "Not enough credits")
        ELSE Done(s, "buy", auth.player, NoToken, 0)

\* UPDATE players SET credits = credits - ? WHERE id = ?  (cosmetic.price)
BuyDebit(s, player, cosmetic_id) ==
    UpdateCreditsBy(s, player, 0 - s.catalog[cosmetic_id].price)

\* INSERT INTO player_cosmetics (player_id, cosmetic_id): equipped DEFAULT 0.
\* The PRIMARY KEY makes the statement throw on an existing row.
BuyInsert(s, player, cosmetic_id) ==
    IF <<player, cosmetic_id>> \in DOMAIN s.cosmetics
    THEN s
    ELSE [s EXCEPT !.cosmetics = @ @@ (<<player, cosmetic_id>> :> [equipped |-> 0])]

\* SELECT credits FROM players WHERE id = ?, and the response.
BuyReply(s, player) ==
    Done(s, "buy", player, NoToken,
         IF player \in DOMAIN s.players THEN s.players[player].credits ELSE 0)

\* The whole handler, when nothing stops it between its two statements.
BuyCosmetic(s, token, cosmetic_id) ==
    LET checks == BuyRefusal(s, token, cosmetic_id)
        player == checks.resp.player
    IN  IF checks.resp.status # 200
        THEN checks
        ELSE BuyReply(BuyInsert(BuyDebit(s, player, cosmetic_id), player, cosmetic_id),
                      player)

\* /cosmetics/equip taking off every other cosmetic the player wears.
EquipCosmeticExclusive(s, token, cosmetic_id, equipped) ==
    LET auth == requireAuth(s, token)
        key == <<auth.player, cosmetic_id>>
    IN  IF auth.status # 200
        THEN Fail(s, "equip", auth.status, auth.error)
        ELSE IF cosmetic_id = 0
        THEN Fail(s, "equip", 400, "cosmetic_id required")
        ELSE IF key \notin DOMAIN s.cosmetics
        THEN Fail(s, "equip", 403, "Cosmetic not owned")
        ELSE Done([s EXCEPT !.cosmetics =
                       [k \in DOMAIN @ |->
                           IF k = key THEN [equipped |-> IF equipped THEN 1 ELSE 0]
                           ELSE IF k[1] = auth.player /\ equipped
                           THEN [equipped |-> 0]
                           ELSE @[k]]],
                  "equip", auth.player, NoToken, 0)

EquipCosmetic(s, token, cosmetic_id, equipped) ==
    LET auth == requireAuth(s, token)
        key == <<auth.player, cosmetic_id>>
    IN  IF auth.status # 200
        THEN Fail(s, "equip", auth.status, auth.error)
        ELSE IF cosmetic_id = 0
        THEN Fail(s, "equip", 400, "cosmetic_id required")
        ELSE IF key \notin DOMAIN s.cosmetics
        THEN Fail(s, "equip", 403, "Cosmetic not owned")
        ELSE Done([s EXCEPT !.cosmetics[key].equipped = IF equipped THEN 1 ELSE 0],
                  "equip", auth.player, NoToken, 0)

--------------------------------------------------------------------------
\* POST /friends/request and POST /friends/accept.

\* The INSERT of the friends routes as INSERT OR REPLACE.
InsertFriendOrReplace(s, player, friend, status) ==
    [s EXCEPT !.friends = (<<player, friend>> :> status) @@ @]

\* INSERT OR IGNORE INTO friend_relationships (player_id, friend_id, status)
InsertFriendOrIgnore(s, player, friend, status) ==
    IF <<player, friend>> \in DOMAIN s.friends
    THEN s
    ELSE [s EXCEPT !.friends = @ @@ (<<player, friend>> :> status)]

\* UPDATE friend_relationships SET status = 'accepted'
\*   WHERE player_id = ? AND friend_id = ?
AcceptEdge(s, player, friend) ==
    IF <<player, friend>> \in DOMAIN s.friends
    THEN [s EXCEPT !.friends[<<player, friend>>] = "accepted"]
    ELSE s

RequestFriend(s, token, friend_username) ==
    LET auth == requireAuth(s, token)
    IN  IF auth.status # 200
        THEN Fail(s, "friends/request", auth.status, auth.error)
        ELSE IF friend_username = ""
        THEN Fail(s, "friends/request", 400, "friend_username required")
        ELSE LET friend == PlayerByName(s, s.players[auth.player].game_id,
                                        friend_username)
             IN  IF friend = NoPlayer
                 THEN Fail(s, "friends/request", 404, "Player not found in this game")
                 ELSE IF friend = auth.player
                 THEN Fail(s, "friends/request", 400, "Cannot add yourself")
                 ELSE Done(InsertFriendOrIgnore(s, auth.player, friend, "pending"),
                           "friends/request", auth.player, NoToken, 0)

AcceptFriend(s, token, friend_id) ==
    LET auth == requireAuth(s, token)
    IN  IF auth.status # 200
        THEN Fail(s, "friends/accept", auth.status, auth.error)
        ELSE IF friend_id = NoPlayer
        THEN Fail(s, "friends/accept", 400, "friend_id required")
        ELSE Done(InsertFriendOrIgnore(AcceptEdge(s, friend_id, auth.player),
                                       auth.player, friend_id, "accepted"),
                  "friends/accept", auth.player, NoToken, 0)

\* SELECT p.id ... FROM friend_relationships fr JOIN players p ON p.id = fr.friend_id
\*   WHERE fr.player_id = ? AND fr.status = 'accepted'
FriendRows(s, player) ==
    {friend \in DOMAIN s.players :
        /\ <<player, friend>> \in DOMAIN s.friends
        /\ s.friends[<<player, friend>>] = "accepted"}

ListFriends(s, token) ==
    LET auth == requireAuth(s, token)
    IN  IF auth.status # 200
        THEN Fail(s, "friends", auth.status, auth.error)
        ELSE Done(s, "friends", auth.player, NoToken, 0)

--------------------------------------------------------------------------
\* The owner's routes.

OWNER_PASSWORD == "admin1234"

OwnerKeys == {OWNER_PASSWORD, "guess"}

requireOwner(key) == key = OWNER_PASSWORD

NotAuthorized(s, op) == Fail(s, op, 403, "Not authorized")

\* /owner/credits/give without its result.changes check.
AdminGiveIgnoresChanges(s, key, player_id, amount) ==
    IF ~requireOwner(key)
    THEN NotAuthorized(s, "owner/credits/give")
    ELSE IF player_id = NoPlayer \/ amount = 0
    THEN Fail(s, "owner/credits/give", 400, "player_id and amount required")
    ELSE LET after == UpdateCreditsBy(s, player_id, amount)
         IN  Done(after, "owner/credits/give", player_id, NoToken,
                  IF player_id \in DOMAIN after.players
                  THEN after.players[player_id].credits ELSE 0)

AdminGive(s, key, player_id, amount) ==
    IF ~requireOwner(key)
    THEN NotAuthorized(s, "owner/credits/give")
    ELSE IF player_id = NoPlayer \/ amount = 0
    THEN Fail(s, "owner/credits/give", 400, "player_id and amount required")
    ELSE IF player_id \notin DOMAIN s.players
    THEN Fail(s, "owner/credits/give", 404, "Player not found")
    ELSE LET after == UpdateCreditsBy(s, player_id, amount)
         IN  Done(after, "owner/credits/give", player_id, NoToken,
                  after.players[player_id].credits)

AdminSet(s, key, player_id, amount) ==
    IF ~requireOwner(key)
    THEN NotAuthorized(s, "owner/credits/set")
    ELSE IF player_id = NoPlayer
    THEN Fail(s, "owner/credits/set", 400, "player_id and amount required")
    ELSE IF player_id \notin DOMAIN s.players
    THEN Fail(s, "owner/credits/set", 404, "Player not found")
    ELSE Done(UpdateCreditsTo(s, player_id, amount), "owner/credits/set",
              player_id, NoToken, amount)

Ban(s, key, player_id, banned) ==
    IF ~requireOwner(key)
    THEN NotAuthorized(s, "owner/ban")
    ELSE IF player_id = NoPlayer
    THEN Fail(s, "owner/ban", 400, "player_id required")
    ELSE Done(UpdateBanned(s, player_id, IF banned THEN 1 ELSE 0), "owner/ban",
              player_id, NoToken, 0)

\* INSERT INTO cosmetics_catalog (id, game_id, name, type, description, price, rarity)
CreateCosmetic(s, key, game_id, price, id) ==
    IF ~requireOwner(key)
    THEN NotAuthorized(s, "owner/cosmetics/create")
    ELSE IF game_id = ""
    THEN Fail(s, "owner/cosmetics/create", 400, "game_id, name, and type required")
    ELSE Done([s EXCEPT !.catalog = @ @@ (id :> [game_id |-> game_id, price |-> price])],
              "owner/cosmetics/create", NoPlayer, NoToken, 0)

\* The loop of /owner/bulk/credits adding once per distinct id of the batch.
RECURSIVE BulkCreditsTxDistinct(_, _, _)
BulkCreditsTxDistinct(s, ids, amount) ==
    IF ids = <<>>
    THEN s
    ELSE IF \E i \in DOMAIN Tail(ids) : Tail(ids)[i] = Head(ids)
    THEN BulkCreditsTxDistinct(s, Tail(ids), amount)
    ELSE BulkCreditsTxDistinct(UpdateCreditsBy(s, Head(ids), amount), Tail(ids), amount)

\* db.transaction((ids) => { for (const id of ids) stmt.run(amount, id); })
RECURSIVE BulkCreditsTx(_, _, _)
BulkCreditsTx(s, ids, amount) ==
    IF ids = <<>>
    THEN s
    ELSE BulkCreditsTx(UpdateCreditsBy(s, Head(ids), amount), Tail(ids), amount)

BulkAddCredits(s, key, player_ids, amount) ==
    IF ~requireOwner(key)
    THEN NotAuthorized(s, "owner/bulk/credits")
    ELSE IF player_ids = <<>> \/ amount = 0
    THEN Fail(s, "owner/bulk/credits", 400, "player_ids array and amount required")
    ELSE Done(BulkCreditsTx(s, player_ids, amount), "owner/bulk/credits",
              NoPlayer, NoToken, 0)

\* The UPDATE of /owner/reset-password with the token left out of its SET.
ResetStoreKeepsToken(s, id, hash, token) ==
    [s EXCEPT !.players[id].password_hash = hash]

\* UPDATE players SET password_hash = ?, token = ? WHERE id = ?
ResetStore(s, id, hash, token) ==
    [s EXCEPT !.players[id].password_hash = hash, !.players[id].token = token]

\* POST /owner/reset-password.  token is the uuidv4() value drawn.
AdminResetPassword(s, key, player_id, new_password, token) ==
    IF ~requireOwner(key)
    THEN NotAuthorized(s, "owner/reset-password")
    ELSE IF player_id = NoPlayer \/ new_password = ""
    THEN Fail(s, "owner/reset-password", 400, "player_id and new_password required")
    ELSE IF player_id \notin DOMAIN s.players
    THEN Fail(s, "owner/reset-password", 404, "Player not found")
    ELSE Done(ResetStore(s, player_id, hashSync(new_password), token),
              "owner/reset-password", player_id, token, 0)

\* INSERT OR REPLACE in place of INSERT OR IGNORE: the row is written anew.
InsertCosmeticOrReplace(s, player, cosmetic_id) ==
    IF <<player, cosmetic_id>> \in DOMAIN s.cosmetics
    THEN [s EXCEPT !.cosmetics[<<player, cosmetic_id>>] = [equipped |-> 0]]
    ELSE [s EXCEPT !.cosmetics = @ @@ (<<player, cosmetic_id>> :> [equipped |-> 0])]

\* INSERT OR IGNORE INTO player_cosmetics (player_id, cosmetic_id): equipped
\* DEFAULT 0; an existing row stays as it is.
InsertCosmeticOrIgnore(s, player, cosmetic_id) ==
    IF <<player, cosmetic_id>> \in DOMAIN s.cosmetics
    THEN s
    ELSE [s EXCEPT !.cosmetics = @ @@ (<<player, cosmetic_id>> :> [equipped |-> 0])]

\* POST /owner/cosmetics/grant.  The table has no foreign key: neither the
\* player nor the cosmetic needs to exist.
GrantCosmetic(s, key, player_id, cosmetic_id) ==
    IF ~requireOwner(key)
    THEN NotAuthorized(s, "owner/cosmetics/grant")
    ELSE IF player_id = NoPlayer \/ cosmetic_id = 0
    THEN Fail(s, "owner/cosmetics/grant", 400, "player_id and cosmetic_id required")
    ELSE Done(InsertCosmeticOrIgnore(s, player_id, cosmetic_id),
              "owner/cosmetics/grant", player_id, NoToken, 0)

\* POST /owner/inventory/give: the upsert of /inventory/add for any player_id,
\* the metadata column left to its default NULL.
AdminGiveItem(s, key, player_id, item_name, quantity) ==
    IF ~requireOwner(key)
    THEN NotAuthorized(s, "owner/inventory/give")
    ELSE IF player_id = NoPlayer \/ item_name = ""
    THEN Fail(s, "owner/inventory/give", 400, "player_id and item_name required")
    ELSE Done(UpsertInventory(s, player_id, item_name, quantity, <<"null">>),
              "owner/inventory/give", player_id, NoToken, 0)

\* POST /save: INSERT OR REPLACE INTO player_data (player_id, key, value) for
\* every entry of the object, in one db.transaction.
RECURSIVE SaveTx(_, _, _)
SaveTx(s, player, entries) ==
    IF entries = <<>>
    THEN s
    ELSE LET key == <<player, Head(entries)[1]>>
             value == <<"json", Head(entries)[2]>>
             rest == [k \in DOMAIN s.data \ {key} |-> s.data[k]]
         IN  SaveTx([s EXCEPT !.data = rest @@ (key :> value)], player, Tail(entries))

Save(s, token, data) ==
    LET auth == requireAuth(s, token)
    IN  IF auth.status # 200
        THEN Fail(s, "save", auth.status, auth.error)
        ELSE IF ~data.object
        THEN Fail(s, "save", 400, "data must be a JSON object")
        ELSE Done(SaveTx(s, auth.player, data.entries), "save", auth.player, NoToken, 0)

\* The DELETE statements of a player deletion with the players row first.
DeleteStatementsPlayerFirst == <<"players", "player_data", "player_cosmetics", "inventory">>

\* The DELETE statements of DELETE /owner/player/:id and /owner/bulk/delete,
\* by table, in the order the code runs them.
DeleteStatements == <<"player_data", "player_cosmetics", "inventory", "players">>

\* DELETE FROM <table> WHERE player_id = ?  (players: WHERE id = ?)
DeleteFrom(s, table, id) ==
    CASE table = "player_data" ->
             [s EXCEPT !.data = Without(@, {k \in DOMAIN @ : k[1] = id})]
      [] table = "player_cosmetics" ->
             [s EXCEPT !.cosmetics = Without(@, {k \in DOMAIN @ : k[1] = id})]
      [] table = "inventory" ->
             [s EXCEPT !.inventory = Without(@, {k \in DOMAIN @ : k[1] = id})]
      [] table = "players" ->
             [s EXCEPT !.players = Without(@, {id})]

\* The statements from the n-th on, one after the other.
RECURSIVE DeleteRows(_, _, _)
DeleteRows(s, id, n) ==
    IF n > Len(DeleteStatements)
    THEN s
    ELSE DeleteRows(DeleteFrom(s, DeleteStatements[n], id), id, n + 1)

\* DELETE /owner/player/:id, when nothing stops it between its statements.
DeletePlayer(s, key, id) ==
    IF ~requireOwner(key)
    THEN NotAuthorized(s, "owner/player/delete")
    ELSE Done(DeleteRows(s, id, 1), "owner/player/delete", id, NoToken, 0)

\* The loop of a bulk route run without db.transaction: every statement
\* commits on its own and stays.
RollbackKeepsStatements(before, now) == now

\* db.transaction(fn): the statements of fn commit together when fn returns;
\* if the process stops (or fn throws) before, the database is what it was
\* before the first of them.
Rollback(before, now) == before

\* What a bulk route does for one id of its batch.
BulkApply(s, kind, arg, id) ==
    CASE kind = "ban" -> UpdateBanned(s, id, IF arg # 0 THEN 1 ELSE 0)
      [] kind = "credits" -> UpdateCreditsBy(s, id, arg)
      [] kind = "delete" -> DeleteRows(s, id, 1)

\* The loop of a bulk route giving up at the first id no player has.
RECURSIVE BulkTxStopsAtUnknown(_, _, _, _)
BulkTxStopsAtUnknown(s, kind, arg, ids) ==
    IF ids = <<>> \/ Head(ids) \notin DOMAIN s.players
    THEN s
    ELSE BulkTxStopsAtUnknown(BulkApply(s, kind, arg, Head(ids)), kind, arg, Tail(ids))

\* (ids) => { for (const id of ids) ... }
RECURSIVE BulkTx(_, _, _, _)
BulkTx(s, kind, arg, ids) ==
    IF ids = <<>>
    THEN s
    ELSE BulkTx(BulkApply(s, kind, arg, Head(ids)), kind, arg, Tail(ids))

\* POST /owner/bulk/ban
BulkBan(s, key, player_ids, banned) ==
    IF ~requireOwner(key)
    THEN NotAuthorized(s, "owner/bulk/ban")
    ELSE IF player_ids = <<>>
    THEN Fail(s, "owner/bulk/ban", 400, "player_ids array required")
    ELSE Done(BulkTx(s, "ban", IF banned THEN 1 ELSE 0, player_ids),
              "owner/bulk/ban", NoPlayer, NoToken, 0)

\* POST /owner/bulk/delete
BulkDelete(s, key, player_ids) ==
    IF ~requireOwner(key)
    THEN NotAuthorized(s, "owner/bulk/delete")
    ELSE IF player_ids = <<>>
    THEN Fail(s, "owner/bulk/delete", 400, "player_ids array required")
    ELSE Done(BulkTx(s, "delete", 0, player_ids),
              "owner/bulk/delete", NoPlayer, NoToken, 0)

\* A bulk route by its kind; arg is banned (0 or 1) or the amount.
Bulk(s, key, kind, player_ids, arg) ==
    CASE kind = "ban" -> BulkBan(s, key, player_ids, arg # 0)
      [] kind = "credits" -> BulkAddCredits(s, key, player_ids, arg)
      [] kind = "delete" -> BulkDelete(s, key, player_ids)

\* The WHERE of /leaderboard/credits with its banned = 0 left out.
LeaderboardRowsWithBanned(s, game_id) ==
    {id \in DOMAIN s.players : s.players[id].game_id = game_id}

\* FROM players WHERE game_id = ? AND banned = 0
LeaderboardRows(s, game_id) ==
    {id \in DOMAIN s.players :
        s.players[id].game_id = game_id /\ s.players[id].banned = 0}

\* ORDER BY credits DESC: every order of the rows SQLite may produce, rows of
\* equal credits in either order.
OrderByCreditsDesc(s, ids) ==
    {rows \in [1 .. Cardinality(ids) -> ids] :
        \A i, j \in 1 .. Cardinality(ids) :
            i < j => /\ rows[i] # rows[j]
                     /\ s.players[rows[i]].credits >= s.players[rows[j]].credits}

\* LIMIT ?: a negative limit is no limit.
Limit(rows, limit) ==
    IF limit < 0 \/ limit >= Len(rows) THEN rows ELSE SubSeq(rows, 1, limit)

\* const { game_id, limit = 10 } = req.query
DefaultLimit == 10

\* rows.map((r, i) => ({ rank: i + 1, ...r })), for every order of the rows.
Leaderboards(s, game_id, limit) ==
    {[i \in DOMAIN Limit(rows, limit) |->
         [rank |-> i, player_id |-> rows[i],
          username |-> s.players[rows[i]].username,
          credits |-> s.players[rows[i]].credits]] :
     rows \in OrderByCreditsDesc(s, LeaderboardRows(s, game_id))}

TopByCredits(s, game_id, limit) ==
    IF game_id = ""
    THEN Fail(s, "leaderboard/credits", 400, "game_id required")
    ELSE Done(s, "leaderboard/credits", NoPlayer, NoToken, 0)

\* DELETE /owner/cosmetics/:id
\*   DELETE FROM player_cosmetics WHERE cosmetic_id = ?
\*   DELETE FROM cosmetics_catalog WHERE id = ?
DeleteCosmetic(s, key, id) ==
    IF ~requireOwner(key)
    THEN NotAuthorized(s, "owner/cosmetics/delete")
    ELSE Done([s EXCEPT
                  !.cosmetics = Without(@, {k \in DOMAIN @ : k[2] = id}),
                  !.catalog = Without(@, {id})],
              "owner/cosmetics/delete", NoPlayer, NoToken, 0)

--------------------------------------------------------------------------
\* The model's bounds on a store: balances and counters stay in range.

InBounds(s) ==
    /\ \A id \in DOMAIN s.players :
           /\ s.players[id].credits <= MaxCredits
           /\ s.players[id].credits >= 0 - MaxCredits
    /\ \A key \in DOMAIN s.inventory :
           /\ s.inventory[key].quantity <= MaxQuantity
           /\ s.inventory[key].quantity >= 0 - MaxQuantity

\* The history of tokens, after a response that stored one.
Issue(r) ==
    IF r.status = 200 /\ r.token # NoToken
    THEN [issued EXCEPT ![r.player] = @ \cup {r.token}]
    ELSE issued

\* An atomic handler: the whole callback is one step.
Handle(r) ==
    /\ running = Idle
    /\ InBounds(r.store)
    /\ store' = r.store
    /\ resp' = Sent(r.resp)
    /\ issued' = Issue(r.resp)
    /\ UNCHANGED <<running, debited, race>>

--------------------------------------------------------------------------
\* Actions.

Init ==
    /\ store = EmptyStore
    /\ uuid = [player |-> 0, token |-> 0, cosmetic |-> 0]
    /\ running = Idle
    /\ resp = Sent(NoResponse)
    /\ issued = [id \in PlayerIds |-> {}]
    /\ debited = {}
    /\ race = [token |-> EmptyFn, amount |-> EmptyFn, issued |-> EmptyFn,
               pending |-> EmptyFn, ok |-> EmptyFn, insufficient |-> EmptyFn]

RegisterRequest(games, names, passwords) ==
    \E game_id \in games, username \in names, password \in passwords :
        LET r == Register(store, game_id, username, password,
                          uuid.player + 1, uuid.token + 1)
        IN  /\ r.resp.status = 200 => uuid.player < MaxPlayers /\ uuid.token < MaxTokens
            /\ Handle(r)
            /\ uuid' = IF r.resp.status = 200
                       THEN [uuid EXCEPT !.player = @ + 1, !.token = @ + 1]
                       ELSE uuid

LoginRequest(games, names, passwords) ==
    \E game_id \in games, username \in names, password \in passwords :
        LET r == Login(store, game_id, username, password, uuid.token + 1)
        IN  /\ r.resp.status = 200 => uuid.token < MaxTokens
            /\ Handle(r)
            /\ uuid' = IF r.resp.status = 200
                       THEN [uuid EXCEPT !.token = @ + 1]
                       ELSE uuid

SpendRequest(tokens, amounts) ==
    \E token \in tokens, amount \in amounts :
        /\ Handle(Spend(store, token, amount))
        /\ UNCHANGED uuid

AddRequest(tokens, amounts) ==
    \E token \in tokens, amount \in amounts :
        /\ Handle(Add(store, token, amount))
        /\ UNCHANGED uuid

\* /cosmetics/buy commits its UPDATE and its INSERT one after the other.
BuyRequest(tokens) ==
    \E token \in tokens, cosmetic_id \in 0 .. MaxCosmetics :
        LET checks == BuyRefusal(store, token, cosmetic_id)
            player == checks.resp.player
        IN  IF checks.resp.status # 200
            THEN Handle(checks) /\ UNCHANGED uuid
            ELSE /\ running = Idle
                 /\ InBounds(BuyDebit(store, player, cosmetic_id))
                 /\ store' = BuyDebit(store, player, cosmetic_id)
                 /\ running' = [op |-> "buy", player |-> player, cosmetic |-> cosmetic_id]
                 /\ debited' = debited \cup {<<player, cosmetic_id>>}
                 /\ UNCHANGED <<uuid, resp, issued, race>>

BuyFinish ==
    /\ running.op = "buy"
    /\ LET r == BuyReply(BuyInsert(store, running.player, running.cosmetic),
                         running.player)
       IN  store' = r.store /\ resp' = Sent(r.resp)
    /\ running' = Idle
    /\ UNCHANGED <<uuid, issued, debited, race>>

\* The process dies between two statements of a handler: what was committed
\* stays, what a db.transaction had not committed is rolled back, the rest of
\* the handler never runs and no response is sent.
Crash ==
    /\ running # Idle
    /\ running' = Idle
    /\ store' = IF running.op = "bulk" THEN Rollback(running.before, store) ELSE store
    /\ UNCHANGED <<uuid, resp, issued, debited, race>>

EquipRequest(tokens) ==
    \E token \in tokens, cosmetic_id \in 0 .. UnknownCosmetic, equipped \in BOOLEAN :
        /\ Handle(EquipCosmetic(store, token, cosmetic_id, equipped))
        /\ UNCHANGED uuid

AddItemRequest(tokens, quantities, metadatas) ==
    \E token \in tokens, item_name \in ItemNames, quantity \in quantities,
       metadata \in metadatas :
        /\ Handle(AddItem(store, token, item_name, quantity, metadata))
        /\ UNCHANGED uuid

RemoveItemRequest(tokens, quantities) ==
    \E token \in tokens, item_name \in ItemNames, quantity \in quantities :
        /\ Handle(RemoveItem(store, token, item_name, quantity))
        /\ UNCHANGED uuid

RequestFriendRequest(tokens, names) ==
    \E token \in tokens, friend_username \in names :
        /\ Handle(RequestFriend(store, token, friend_username))
        /\ UNCHANGED uuid

AcceptFriendRequest(tokens, friends) ==
    \E token \in tokens, friend_id \in friends :
        /\ Handle(AcceptFriend(store, token, friend_id))
        /\ UNCHANGED uuid

AdminGiveRequest ==
    \E key \in OwnerKeys, player_id \in 0 .. MaxPlayers, amount \in Amounts :
        /\ Handle(AdminGive(store, key, player_id, amount))
        /\ UNCHANGED uuid

AdminSetRequest ==
    \E key \in OwnerKeys, player_id \in 0 .. MaxPlayers, amount \in Amounts :
        /\ Handle(AdminSet(store, key, player_id, amount))
        /\ UNCHANGED uuid

BanRequest ==
    \E key \in OwnerKeys, player_id \in 0 .. MaxPlayers, banned \in BOOLEAN :
        /\ Handle(Ban(store, key, player_id, banned))
        /\ UNCHANGED uuid

CreateCosmeticRequest(games, prices) ==
    \E key \in OwnerKeys, game_id \in games, price \in prices :
        LET r == CreateCosmetic(store, key, game_id, price, uuid.cosmetic + 1)
        IN  /\ r.resp.status = 200 => uuid.cosmetic < MaxCosmetics
            /\ Handle(r)
            /\ uuid' = IF r.resp.status = 200
                       THEN [uuid EXCEPT !.cosmetic = @ + 1]
                       ELSE uuid

\* N concurrent /credits/spend requests per player, each for the player's whole
\* balance: Node handles them one at a time, in any order.
RaceStore(a1, a2) ==
    LET s1 == Register(EmptyStore, "g1", "alice", "pw", 1, 1).store
        s2 == Register(s1, "g1", "bob", "pw", 2, 2).store
        s3 == Add(s2, 1, a1).store
    IN  Add(s3, 2, a2).store

InitRace ==
    \E a1, a2 \in 1 .. MaxCredits, n1, n2 \in 1 .. MaxRequests :
        /\ store = RaceStore(a1, a2)
        /\ uuid = [player |-> 2, token |-> 2, cosmetic |-> 0]
        /\ running = Idle
        /\ resp = Sent(NoResponse)
        /\ issued = [id \in PlayerIds |-> IF id <= 2 THEN {id} ELSE {}]
        /\ debited = {}
        /\ race = [token |-> (1 :> 1) @@ (2 :> 2),
                   amount |-> (1 :> a1) @@ (2 :> a2),
                   issued |-> (1 :> n1) @@ (2 :> n2),
                   pending |-> (1 :> n1) @@ (2 :> n2),
                   ok |-> (1 :> 0) @@ (2 :> 0),
                   insufficient |-> (1 :> 0) @@ (2 :> 0)]

SpendRace ==
    \E id \in DOMAIN race.pending :
        LET r == Spend(store, race.token[id], race.amount[id])
        IN  /\ race.pending[id] > 0
            /\ running = Idle
            /\ store' = r.store
            /\ resp' = Sent(r.resp)
            /\ race' = [race EXCEPT
                           !.pending[id] = @ - 1,
                           !.ok[id] = IF r.resp.status = 200 THEN @ + 1 ELSE @,
                           !.insufficient[id] =
                               IF r.resp.error = "Not enough credits" THEN @ + 1 ELSE @]
            /\ UNCHANGED <<uuid, running, issued, debited>>

\* The player_ids arrays of the bulk routes: ids in any order, repeated or unknown.
IdLists == {<<>>} \cup {<<a>> : a \in PlayerIds} \cup {<<a, b>> : a, b \in PlayerIds}

BulkAddCreditsRequest ==
    \E key \in OwnerKeys, player_ids \in IdLists, amount \in Amounts :
        /\ Handle(BulkAddCredits(store, key, player_ids, amount))
        /\ UNCHANGED uuid

AdminResetPasswordRequest ==
    \E key \in OwnerKeys, player_id \in 0 .. MaxPlayers,
       new_password \in Passwords \cup {""} :
        LET r == AdminResetPassword(store, key, player_id, new_password,
                                    uuid.token + 1)
        IN  /\ r.resp.status = 200 => uuid.token < MaxTokens
            /\ Handle(r)
            /\ uuid' = IF r.resp.status = 200
                       THEN [uuid EXCEPT !.token = @ + 1]
                       ELSE uuid

\* The owner names a player and a cosmetic there is, none, or an id there is not.
GrantCosmeticRequest ==
    \E key \in OwnerKeys,
       player_id \in DOMAIN store.players \cup {NoPlayer, UnknownPlayer},
       cosmetic_id \in DOMAIN store.catalog \cup {0, UnknownCosmetic} :
        /\ Handle(GrantCosmetic(store, key, player_id, cosmetic_id))
        /\ UNCHANGED uuid

AdminGiveItemRequest(quantities) ==
    \E key \in OwnerKeys,
       player_id \in DOMAIN store.players \cup {NoPlayer, UnknownPlayer},
       item_name \in ItemNames \cup {""}, quantity \in quantities :
        /\ Handle(AdminGiveItem(store, key, player_id, item_name, quantity))
        /\ UNCHANGED uuid

SaveRequest(tokens) ==
    \E token \in tokens, data \in SaveBodies :
        /\ Handle(Save(store, token, data))
        /\ UNCHANGED uuid

\* DELETE /owner/player/:id commits its four DELETE statements one after the other.
DeletePlayerRequest ==
    \E key \in OwnerKeys, id \in DOMAIN store.players \cup {UnknownPlayer} :
        IF ~requireOwner(key)
        THEN Handle(DeletePlayer(store, key, id)) /\ UNCHANGED uuid
        ELSE /\ running = Idle
             /\ store' = DeleteFrom(store, DeleteStatements[1], id)
             /\ running' = [op |-> "delete", player |-> id, cosmetic |-> 0, next |-> 2]
             /\ UNCHANGED <<uuid, resp, issued, debited, race>>

DeletePlayerStep ==
    /\ running.op = "delete"
    /\ store' = DeleteFrom(store, DeleteStatements[running.next], running.player)
    /\ IF running.next = Len(DeleteStatements)
       THEN /\ running' = Idle
            /\ resp' = Sent(DeletePlayer(store, OWNER_PASSWORD, running.player).resp)
       ELSE /\ running' = [running EXCEPT !.next = @ + 1]
            /\ UNCHANGED resp
    /\ UNCHANGED <<uuid, issued, debited, race>>

\* The player_ids arrays with ids no player has: any order, repeated, unknown.
BulkLists ==
    {<<>>} \cup {<<a>> : a \in PlayerIds \cup {UnknownPlayer}}
           \cup {<<a, b>> : a, b \in PlayerIds \cup {UnknownPlayer}}

BulkKinds == {"ban", "credits", "delete"}

\* A bulk route up to the start of its transaction; nothing is written yet.
BulkBegin(lists, args) ==
    \E key \in OwnerKeys, kind \in BulkKinds, player_ids \in lists, arg \in args :
        LET r == Bulk(store, key, kind, player_ids, arg)
        IN  IF r.resp.status # 200
            THEN Handle(r) /\ UNCHANGED uuid
            ELSE /\ running = Idle
                 /\ InBounds(r.store)
                 /\ running' = [op |-> "bulk", player |-> NoPlayer, cosmetic |-> 0,
                                kind |-> kind, arg |-> arg, all |-> player_ids,
                                ids |-> player_ids, before |-> store]
                 /\ UNCHANGED <<store, uuid, resp, issued, debited, race>>

\* The statements for the next id of the batch, inside the transaction.
BulkStep ==
    /\ running.op = "bulk"
    /\ running.ids # <<>>
    /\ store' = BulkApply(store, running.kind, running.arg, Head(running.ids))
    /\ running' = [running EXCEPT !.ids = Tail(@)]
    /\ UNCHANGED <<uuid, resp, issued, debited, race>>

\* The transaction commits and the route answers.
BulkCommit ==
    /\ running.op = "bulk"
    /\ running.ids = <<>>
    /\ running' = Idle
    /\ resp' = Sent(Bulk(running.before, OWNER_PASSWORD, running.kind, running.all,
                         running.arg).resp)
    /\ UNCHANGED <<store, uuid, issued, debited, race>>

\* A bulk route as the one step it is when nothing stops it.
BulkRequest(lists, args) ==
    \E key \in OwnerKeys, kind \in BulkKinds, player_ids \in lists, arg \in args :
        /\ Handle(Bulk(store, key, kind, player_ids, arg))
        /\ UNCHANGED uuid

Limits == (0 - 1) .. (MaxPlayers + 1) \cup {DefaultLimit}

LeaderboardRequest(games, limits) ==
    \E game_id \in games, limit \in limits :
        /\ Handle(TopByCredits(store, game_id, limit))
        /\ UNCHANGED uuid

ListFriendsRequest(tokens) ==
    \E token \in tokens :
        /\ Handle(ListFriends(store, token))
        /\ UNCHANGED uuid

DeleteCosmeticRequest ==
    \E key \in OwnerKeys, id \in DOMAIN store.catalog \cup {UnknownCosmetic} :
        /\ Handle(DeleteCosmetic(store, key, id))
        /\ UNCHANGED uuid

--------------------------------------------------------------------------
\* Specifications: the routes each group of properties is about.

NextAuth ==
    \/ RegisterRequest(GameIds \cup {""}, Usernames, Passwords)
    \/ LoginRequest(GameIds, Usernames, Passwords \cup {""})
    \/ BanRequest

SpecAuth == Init /\ [][NextAuth]_vars

NextLedger ==
    \/ RegisterRequest({"g1"}, Usernames, {"pw"})
    \/ LoginRequest({"g1"}, {"alice"}, {"pw"})
    \/ SpendRequest(Tokens, Amounts)
    \/ AddRequest(Tokens, Amounts)
    \/ CreateCosmeticRequest({"g1"}, Prices)
    \/ BuyRequest(Tokens)
    \/ BuyFinish

SpecLedger == Init /\ [][NextLedger]_vars

NextCrash ==
    \/ RegisterRequest({"g1"}, {"alice"}, {"pw"})
    \/ AddRequest(Tokens, Amounts)
    \/ CreateCosmeticRequest({"g1"}, Prices)
    \/ BuyRequest(Tokens)
    \/ BuyFinish
    \/ Crash

SpecCrash == Init /\ [][NextCrash]_vars

NextAdmin ==
    \/ RegisterRequest({"g1"}, Usernames, {"pw"})
    \/ AddRequest(Tokens, Amounts)
    \/ AdminGiveRequest
    \/ AdminSetRequest
    \/ BulkAddCreditsRequest

SpecAdmin == Init /\ [][NextAdmin]_vars

NextRace == SpendRace

SpecRace == InitRace /\ [][NextRace]_vars

\* alice (token 1) with credits, an item and a friend request from bob (token
\* 2), in a game whose catalog has one cosmetic.
BanStore ==
    LET s1 == Register(EmptyStore, "g1", "alice", "pw", 1, 1).store
        s2 == Register(s1, "g1", "bob", "pw", 2, 2).store
        s3 == Add(s2, 1, 2).store
        s4 == CreateCosmetic(s3, OWNER_PASSWORD, "g1", 1, 1).store
        s5 == AddItem(s4, 1, "sword", 1, "m").store
    IN  RequestFriend(s5, 2, "alice").store

InitBan ==
    /\ store = BanStore
    /\ uuid = [player |-> 2, token |-> 2, cosmetic |-> 1]
    /\ running = Idle
    /\ resp = Sent(NoResponse)
    /\ issued = [id \in PlayerIds |-> IF id <= 2 THEN {id} ELSE {}]
    /\ debited = {}
    /\ race = [token |-> EmptyFn, amount |-> EmptyFn, issued |-> EmptyFn,
               pending |-> EmptyFn, ok |-> EmptyFn, insufficient |-> EmptyFn]

NextBan ==
    \/ BanRequest
    \/ SpendRequest({1}, {1})
    \/ AddRequest({1}, {1})
    \/ AddItemRequest({1}, {1}, {""})
    \/ RemoveItemRequest({1}, {1})
    \/ BuyRequest({1})
    \/ BuyFinish
    \/ EquipRequest({1})
    \/ RequestFriendRequest({1}, Usernames)
    \/ AcceptFriendRequest({1}, 0 .. MaxPlayers)

SpecBan == InitBan /\ [][NextBan]_vars

NextReset ==
    \/ RegisterRequest({"g1"}, Usernames, {"pw"})
    \/ LoginRequest({"g1"}, Usernames, Passwords)
    \/ AdminResetPasswordRequest
    \/ BanRequest

SpecReset == Init /\ [][NextReset]_vars

NextCosmetics ==
    \/ RegisterRequest({"g1"}, {"alice"}, {"pw"})
    \/ AddRequest(Tokens, {1})
    \/ CreateCosmeticRequest({"g1"}, Prices)
    \/ BuyRequest(Tokens)
    \/ BuyFinish
    \/ EquipRequest(Tokens)
    \/ GrantCosmeticRequest

SpecCosmetics == Init /\ [][NextCosmetics]_vars

NextInventory ==
    \/ RegisterRequest({"g1"}, Usernames, {"pw"})
    \/ AddItemRequest(Tokens, Quantities, Metadatas)
    \/ RemoveItemRequest(Tokens, Quantities)
    \/ AdminGiveItemRequest(Quantities)

SpecInventory == Init /\ [][NextInventory]_vars

NextDelete ==
    \/ RegisterRequest({"g1"}, {"alice"}, {"pw"})
    \/ SaveRequest(Tokens)
    \/ AdminGiveItemRequest({MaxQuantity})
    \/ GrantCosmeticRequest
    \/ DeletePlayerRequest
    \/ DeletePlayerStep
    \/ Crash

SpecDelete == Init /\ [][NextDelete]_vars

NextBulkCrash ==
    \/ RegisterRequest({"g1"}, Usernames, {"pw"})
    \/ BulkBegin({<<1, 2>>, <<2, UnknownPlayer, 1>>}, {1})
    \/ BulkStep
    \/ BulkCommit
    \/ Crash

SpecBulkCrash == Init /\ [][NextBulkCrash]_vars

\* Every batch of SpecBulk names an id no player has.
NextBulk ==
    \/ RegisterRequest({"g1"}, Usernames, {"pw"})
    \/ AdminGiveItemRequest({MaxQuantity})
    \/ BulkRequest({<<>>, <<UnknownPlayer>>, <<2, UnknownPlayer>>,
                    <<1, UnknownPlayer, 2>>}, {0, 1})

SpecBulk == Init /\ [][NextBulk]_vars

\* The batches of SpecBulkOrder repeat an id.
NextBulkOrder ==
    \/ RegisterRequest({"g1"}, Usernames, {"pw"})
    \/ SaveRequest(Tokens)
    \/ BulkRequest({<<>>, <<2, 2>>, <<1, 2>>, <<2, 1, 2>>}, {0, 1})

SpecBulkOrder == Init /\ [][NextBulkOrder]_vars

NextBoard ==
    \/ RegisterRequest(GameIds, Usernames, {"pw"})
    \/ AddRequest(Tokens, {1})
    \/ BanRequest
    \/ LeaderboardRequest({"g1", ""}, {1, DefaultLimit})

SpecBoard == Init /\ [][NextBoard]_vars

\* The first two players registered are the ones who act.
NextFriends ==
    \/ RegisterRequest(GameIds, Usernames, {"pw"})
    \/ RequestFriendRequest({1, 2}, Usernames \cup {""})
    \/ AcceptFriendRequest({1, 2}, {0, 1, 2, UnknownPlayer})
    \/ ListFriendsRequest({1, 2})

SpecFriends == Init /\ [][NextFriends]_vars

\* One player, and every route that can refuse.
NextErrors ==
    \/ RegisterRequest({"g1"}, {"alice"}, {"pw"})
    \/ LoginRequest({"g1"}, {"alice"}, Passwords)
    \/ SpendRequest(Tokens, {0, 1, MaxAmount})
    \/ AddRequest(Tokens, {1})
    \/ RemoveItemRequest(Tokens, {1})
    \/ CreateCosmeticRequest({"g1", ""}, Prices)
    \/ BuyRequest(Tokens)
    \/ BuyFinish
    \/ AdminGiveRequest

SpecErrors == Init /\ [][NextErrors]_vars

\* Players and cosmetics of both games; /cosmetics/buy alone writes player_cosmetics.
NextTenants ==
    \/ RegisterRequest(GameIds, {"alice"}, {"pw"})
    \/ AddRequest(Tokens, {1})
    \/ CreateCosmeticRequest(GameIds, Prices)
    \/ BuyRequest(Tokens)
    \/ BuyFinish

SpecTenants == Init /\ [][NextTenants]_vars

\* The owner names any price, negative ones included.
NextPrices ==
    \/ RegisterRequest({"g1"}, {"alice"}, {"pw"})
    \/ AddRequest(Tokens, {1})
    \/ CreateCosmeticRequest({"g1"}, {0 - 1, 0, 1})
    \/ BuyRequest(Tokens)
    \/ BuyFinish
    \/ Crash

SpecPrices == Init /\ [][NextPrices]_vars

\* alice and bob, from the store of InitBan: bob earns credits and swords,
\* and both spend, buy, equip and remove.
NextPlayers ==
    \/ SpendRequest({1, 2}, {1})
    \/ AddRequest({2}, {1})
    \/ AddItemRequest({2}, {1}, {""})
    \/ RemoveItemRequest({1, 2}, {1})
    \/ BuyRequest({1, 2})
    \/ BuyFinish
    \/ EquipRequest({1, 2})

SpecPlayers == InitBan /\ [][NextPlayers]_vars

\* alice and bob, from the store of InitBan: the owner bans and unbans, singly
\* and in batches, and nobody logs in or has a password reset.
NextUnban ==
    \/ BanRequest
    \/ BulkRequest({<<>>, <<1>>, <<2, 1>>}, {0, 1})
    \/ SpendRequest({1, 2}, {1})

SpecUnban == InitBan /\ [][NextUnban]_vars

\* The owner's routes that write or delete rows naming a player or a cosmetic.
NextIntegrity ==
    \/ RegisterRequest({"g1"}, {"alice"}, {"pw"})
    \/ CreateCosmeticRequest({"g1"}, Prices)
    \/ GrantCosmeticRequest
    \/ AdminGiveItemRequest({1})
    \/ DeleteCosmeticRequest
    \/ DeletePlayerRequest
    \/ DeletePlayerStep

SpecIntegrity == Init /\ [][NextIntegrity]_vars

--------------------------------------------------------------------------
\* Properties.

Players == DOMAIN store.players

NonNegative(s) == \A id \in DOMAIN s.players : s.players[id].credits >= 0

\* C1: from a fresh store, after any sequence of Register, Login, Spend, Add
\* and BuyCosmetic calls with any integer amounts (over whatever catalog the
\* owner has created), every player's credits are >= 0.
C1_BalanceNonNegative == \A id \in Players : store.players[id].credits >= 0

\* A spend has succeeded and a player who has bought a cosmetic is at exactly zero.
C1_Witness ==
    /\ resp.op = "spend" /\ resp.status = 200
    /\ \E id \in Players :
           /\ store.players[id].credits = 0
           /\ \E c \in CosmeticIds : <<id, c>> \in DOMAIN store.cosmetics

\* C2: no mutation of the ledger, the owner's AdminGive, AdminSet and
\* BulkAddCredits with any integer amount included, leaves a player's balance
\* below zero.
C2_AdminLedgerNonNegative == NonNegative(store)

\* C3: of the N concurrent spends of a player's whole balance a, at most one
\* has succeeded at any time, each handled one ended in success or in
\* "Not enough credits", and once all N are handled exactly one succeeded,
\* N - 1 failed with "Not enough credits" and the balance is 0.
C3_OneSpendWins ==
    \A id \in DOMAIN race.pending :
        /\ race.ok[id] <= 1
        /\ store.players[id].credits >= 0
        /\ race.ok[id] + race.insufficient[id] + race.pending[id] = race.issued[id]
        /\ race.pending[id] = 0 =>
               /\ race.ok[id] = 1
               /\ race.insufficient[id] = race.issued[id] - 1
               /\ store.players[id].credits = 0

\* Three concurrent spends of one player have all been handled.
C3_Witness ==
    \E id \in DOMAIN race.pending :
        race.issued[id] = 3 /\ race.pending[id] = 0 /\ race.insufficient[id] = 2

\* C4: whenever no handler is between two statements, the pairs
\* /cosmetics/buy has debited are exactly the ownership rows: no debit without
\* its row, no row without its debit (the routes of SpecCrash create
\* ownership rows by purchase only).
C4_BuyAtomic == running = Idle => debited = DOMAIN store.cosmetics

\* C5: for every token and cosmetic, if BuyCosmetic succeeds then the same
\* call issued again is refused with 409 "Already owned" and changes nothing,
\* so the balance after both is the balance before less the price, once; and
\* a purchase of a cosmetic the caller already owns is refused and leaves the
\* store as it was, with 409 when the cosmetic is in the catalog.
C5_BuyTwice ==
    \A token \in Tokens, c \in CosmeticIds :
        LET first == BuyCosmetic(store, token, c)
            second == BuyCosmetic(first.store, token, c)
            player == getPlayer(store, token)
        IN  /\ first.resp.status = 200 =>
                /\ second.resp.status = 409
                /\ second.resp.error = "Already owned"
                /\ second.store = first.store
                /\ second.store.players[player].credits =
                       store.players[player].credits - store.catalog[c].price
                /\ <<player, c>> \in DOMAIN second.store.cosmetics
            /\ (player # NoPlayer /\ <<player, c>> \in DOMAIN store.cosmetics) =>
                /\ first.resp.status # 200
                /\ first.store = store
                /\ (store.players[player].banned = 0 /\ c \in DOMAIN store.catalog)
                       => first.resp.status = 409

\* A repeated purchase has been refused as already owned.
C5_Witness ==
    /\ resp.op = "buy" /\ resp.status = 409
    /\ \E pair \in DOMAIN store.cosmetics : pair \in debited

SamePair(s, id, game_id, username) ==
    s.players[id].game_id = game_id /\ s.players[id].username = username

\* C6: no two players share (game_id, username); Register of a pair that
\* exists answers 409 and leaves the store unchanged; Register of any other
\* pair, the same username under another game included, succeeds and adds
\* exactly one player row, with that pair, to the rows there were.
C6_RegisterUnique ==
    /\ \A a, b \in Players :
           SamePair(store, a, store.players[b].game_id, store.players[b].username)
               => a = b
    /\ \A game_id \in GameIds, username \in Usernames, password \in Passwords :
           LET r == Register(store, game_id, username, password,
                             uuid.player + 1, uuid.token + 1)
           IN  IF \E o \in Players : SamePair(store, o, game_id, username)
               THEN r.resp.status = 409 /\ r.store = store
               ELSE /\ r.resp.status = 200
                    /\ DOMAIN r.store.players = Players \cup {r.resp.player}
                    /\ r.resp.player \notin Players
                    /\ SamePair(r.store, r.resp.player, game_id, username)
                    /\ \A o \in Players : r.store.players[o] = store.players[o]

\* A registration was refused while the same username lives in both games.
C6_Witness ==
    /\ resp.op = "register" /\ resp.status = 409
    /\ \E a, b \in Players :
           /\ store.players[a].username = store.players[b].username
           /\ store.players[a].game_id # store.players[b].game_id

\* C7: a token once stored for a player and since replaced is refused with
\* 401 by requireAuth, in every state; and a successful Login stores a token
\* that was never stored for that player before, after which every token
\* stored for the player before is refused with 401.
C7_LoginRotatesToken ==
    /\ \A id \in Players : \A t \in issued[id] :
           store.players[id].token # t => requireAuth(store, t).status = 401
    /\ \A game_id \in GameIds, username \in Usernames, password \in Passwords :
           LET r == Login(store, game_id, username, password, uuid.token + 1)
               player == r.resp.player
           IN  r.resp.status = 200 =>
                   /\ r.store.players[player].token \notin issued[player]
                   /\ \A t \in issued[player] : requireAuth(r.store, t).status = 401

\* A login has succeeded for a player who has held two tokens already.
C7_Witness ==
    /\ resp.op = "login" /\ resp.status = 200
    /\ \E id \in Players : Cardinality(issued[id]) >= 3

\* C8: each player row is found by getPlayer under exactly one token, its
\* own, and no token is the token of two player rows; requireAuth accepts
\* that one token, as that player, unless the player is banned.
C8_TokenOneToOne ==
    /\ \A id \in Players :
           /\ store.players[id].token # NoToken
           /\ {t \in Tokens : getPlayer(store, t) = id} = {store.players[id].token}
           /\ store.players[id].banned = 0 =>
                  {t \in Tokens : requireAuth(store, t).player = id}
                      = {store.players[id].token}
    /\ \A t \in Tokens :
           Cardinality({id \in Players : store.players[id].token = t}) <= 1

\* Two players hold tokens and a login has just replaced one of them.
C8_Witness ==
    /\ resp.op = "login" /\ resp.status = 200
    /\ Cardinality(Players) = 2

Unchanged403(r) == r.resp.status = 403 /\ r.store = store

\* C9: for every banned player, requireAuth refuses the player's token (the
\* one stored before the ban) with 403, and Spend, Add, AddItem, RemoveItem,
\* BuyCosmetic, EquipCosmetic, RequestFriend and AcceptFriend called with it,
\* whatever their other arguments, answer 403 and leave the store unchanged.
C9_BannedCannotAct ==
    \A id \in Players :
        store.players[id].banned # 0 =>
            LET token == store.players[id].token
            IN  /\ requireAuth(store, token).status = 403
                /\ token \in issued[id]
                /\ \A amount \in Amounts :
                       /\ Unchanged403(Spend(store, token, amount))
                       /\ Unchanged403(Add(store, token, amount))
                /\ \A item \in ItemNames, quantity \in 1 .. MaxQuantity :
                       /\ Unchanged403(AddItem(store, token, item, quantity, "m"))
                       /\ Unchanged403(RemoveItem(store, token, item, quantity))
                /\ \A c \in CosmeticIds :
                       /\ Unchanged403(BuyCosmetic(store, token, c))
                       /\ \A e \in BOOLEAN :
                              Unchanged403(EquipCosmetic(store, token, c, e))
                /\ \A username \in Usernames :
                       Unchanged403(RequestFriend(store, token, username))
                /\ \A friend \in PlayerIds :
                       Unchanged403(AcceptFriend(store, token, friend))

\* A spend of a banned player who has credits, an item, a cosmetic and a
\* friend request was refused.
C9_Witness ==
    /\ resp.op = "spend" /\ resp.status = 403
    /\ \E id \in Players :
           /\ store.players[id].banned # 0
           /\ store.players[id].credits > 0
           /\ \E item \in ItemNames : <<id, item>> \in DOMAIN store.inventory
           /\ \E c \in CosmeticIds : <<id, c>> \in DOMAIN store.cosmetics
           /\ \E o \in Players : <<o, id>> \in DOMAIN store.friends

\* C10: Login answers 401 when no player of the game has the username or the
\* password does not match, 403 when the password matches and the player is
\* banned, and in every refused Login the store, the player's token with it,
\* stays as it was.
C10_LoginRefusals ==
    \A game_id \in GameIds, username \in Usernames, password \in Passwords :
        LET r == Login(store, game_id, username, password, uuid.token + 1)
            player == PlayerByName(store, game_id, username)
            matches == compareSync(password, store.players[player].password_hash)
        IN  /\ player = NoPlayer => r.resp.status = 401
            /\ (player # NoPlayer /\ ~matches) => r.resp.status = 401
            /\ (player # NoPlayer /\ matches /\ store.players[player].banned # 0)
                   => r.resp.status = 403
            /\ r.resp.status # 200 => r.store = store
            /\ r.resp.status = 200 => r.store.players[player].banned = 0

\* A banned player's login with the right password has been refused.
C10_Witness ==
    /\ resp.op = "login" /\ resp.status = 403
    /\ \E id \in Players : store.players[id].banned # 0

\* What /owner/reset-password does to an existing player, the token drawn
\* being the next one: the pre-reset token is refused with 401, Login with any
\* password other than the new one is refused with 401, Login with the new one
\* succeeds (403 for a banned player), and no other row changes.
ResetInvalidates(id, new_password) ==
    LET r == AdminResetPassword(store, OWNER_PASSWORD, id, new_password,
                                uuid.token + 1)
        game_id == store.players[id].game_id
        username == store.players[id].username
    IN  /\ r.resp.status = 200
        /\ requireAuth(r.store, store.players[id].token).status = 401
        /\ \A password \in Passwords \ {new_password} :
               Login(r.store, game_id, username, password, uuid.token + 2)
                   .resp.status = 401
        /\ Login(r.store, game_id, username, new_password, uuid.token + 2)
               .resp.status = IF store.players[id].banned # 0 THEN 403 ELSE 200
        /\ \A o \in Players \ {id} : r.store.players[o] = store.players[o]

\* A step that stores another credential for a player leaves the token the
\* player held before the step refused with 401.
CredentialStepRevokes ==
    \A id \in Players :
        (/\ id \in DOMAIN store'.players
         /\ store'.players[id].password_hash # store.players[id].password_hash)
            => requireAuth(store', store.players[id].token).status = 401

\* C11: AdminResetPassword on an existing player replaces the credential and
\* the token in one step: in every state a reset would leave the pre-reset
\* token refused with 401, Login with the old password refused and Login with
\* the new password accepted; and no step stores a new credential while the
\* token held before stays valid.
C11_ResetReplacesBoth ==
    /\ [](\A id \in Players, new_password \in Passwords :
              ResetInvalidates(id, new_password))
    /\ [][CredentialStepRevokes]_vars

\* A reset has replaced the password of a player who had logged in.
C11_Witness ==
    /\ resp.op = "owner/reset-password" /\ resp.status = 200
    /\ \E id \in Players :
           /\ store.players[id].password_hash = hashSync("pw2")
           /\ Cardinality(issued[id]) >= 3

\* C12: for every authenticated player and amount, Spend answers 400
\* "Invalid amount" when amount <= 0 and 400 "Not enough credits" when the
\* balance is below the amount, the store unchanged in both; otherwise it
\* answers 200 with credits = balance - amount and the store differs from the
\* one before in exactly that player's credits, which are balance - amount.
C12_SpendContract ==
    \A token \in Tokens, amount \in Amounts :
        LET auth == requireAuth(store, token)
            id == auth.player
            balance == store.players[id].credits
            r == Spend(store, token, amount)
        IN  auth.status = 200 =>
                IF amount <= 0
                THEN /\ r.resp.status = 400 /\ r.resp.error = "Invalid amount"
                     /\ r.store = store
                ELSE IF balance < amount
                THEN /\ r.resp.status = 400 /\ r.resp.error = "Not enough credits"
                     /\ r.store = store
                ELSE /\ r.resp.status = 200
                     /\ r.resp.credits = balance - amount
                     /\ r.store = [store EXCEPT !.players[id].credits = balance - amount]

\* A spend of part of a balance has succeeded while another player holds credits.
C12_Witness ==
    /\ resp.op = "spend" /\ resp.status = 200
    /\ \E a, b \in Players :
           a # b /\ store.players[a].credits = 1 /\ store.players[b].credits = 2

\* C13: for every player id and nonzero amount, the owner's AdminGive answers
\* 404 "Player not found" and leaves the store unchanged when no player has
\* the id; otherwise it answers 200 with the new balance and the store differs
\* from the one before in exactly that player's credits, raised by the amount.
C13_AdminGiveNotFound ==
    \A player_id \in PlayerIds, amount \in Amounts \ {0} :
        LET r == AdminGive(store, OWNER_PASSWORD, player_id, amount)
        IN  IF player_id \notin Players
            THEN /\ r.resp.status = 404 /\ r.resp.error = "Player not found"
                 /\ r.store = store
            ELSE /\ r.resp.status = 200
                 /\ r.resp.credits = store.players[player_id].credits + amount
                 /\ r.store = [store EXCEPT !.players[player_id].credits = @ + amount]

\* A give to an unknown id was refused while a player with credits exists.
C13_Witness ==
    /\ resp.op = "owner/credits/give" /\ resp.status = 404
    /\ \E id \in Players : store.players[id].credits > 0
    /\ Players # PlayerIds

\* C14: for every authenticated player and cosmetic id, BuyCosmetic answers
\* 404 when the id is not in the catalog, otherwise 409 when the player owns
\* it, otherwise 400 "Not enough credits" when the price exceeds the balance,
\* the store unchanged in all three; otherwise it answers 200 with credits =
\* balance - price and the store differs from the one before in exactly that
\* player's credits, which are balance - price, and one new ownership row
\* (player, cosmetic) with equipped = 0.
C14_BuyContract ==
    \A token \in Tokens, c \in CosmeticIds \cup {UnknownCosmetic} :
        LET auth == requireAuth(store, token)
            id == auth.player
            balance == store.players[id].credits
            r == BuyCosmetic(store, token, c)
        IN  auth.status = 200 =>
                IF c \notin DOMAIN store.catalog
                THEN r.resp.status = 404 /\ r.store = store
                ELSE IF <<id, c>> \in DOMAIN store.cosmetics
                THEN r.resp.status = 409 /\ r.store = store
                ELSE IF store.catalog[c].price > balance
                THEN /\ r.resp.status = 400 /\ r.resp.error = "Not enough credits"
                     /\ r.store = store
                ELSE /\ r.resp.status = 200
                     /\ r.resp.credits = balance - store.catalog[c].price
                     /\ r.store =
                            [store EXCEPT
                                !.players[id].credits = balance - store.catalog[c].price,
                                !.cosmetics = @ @@ (<<id, c>> :> [equipped |-> 0])]

\* A purchase was refused as already owned for a player without credits, who
\* also holds a cosmetic that is in no catalog.
C14_Witness ==
    /\ resp.op = "buy" /\ resp.status = 409
    /\ \E id \in Players :
           /\ store.players[id].credits = 0
           /\ <<id, UnknownCosmetic>> \in DOMAIN store.cosmetics
           /\ \E c \in DOMAIN store.catalog : <<id, c>> \in DOMAIN store.cosmetics

\* C15: for every authenticated player, item, quantity and metadata, AddItem
\* answers 200; when the player has no entry for the item the store gains
\* exactly the entry (player, item) with that quantity and that metadata
\* (JSON-encoded; NULL when none is given); when the player has one, the store
\* differs in exactly that entry's quantity, raised by the quantity given,
\* its metadata staying what it was.
C15_AddItemUpsert ==
    \A token \in Tokens, item \in ItemNames, quantity \in Quantities,
       metadata \in Metadatas :
        LET auth == requireAuth(store, token)
            key == <<auth.player, item>>
            r == AddItem(store, token, item, quantity, metadata)
        IN  auth.status = 200 =>
                /\ r.resp.status = 200
                /\ IF key \notin DOMAIN store.inventory
                   THEN r.store =
                            [store EXCEPT !.inventory = @ @@
                                (key :> [quantity |-> quantity,
                                         metadata |-> IF metadata = ""
                                                      THEN <<"null">>
                                                      ELSE <<"json", metadata>>])]
                   ELSE /\ r.store =
                               [store EXCEPT !.inventory[key].quantity = @ + quantity]
                        /\ r.store.inventory[key].metadata =
                               store.inventory[key].metadata

\* An add has succeeded; an entry created with metadata stands at the largest
\* quantity and another entry was created without metadata.
C15_Witness ==
    /\ resp.op = "inventory/add" /\ resp.status = 200
    /\ \E a, b \in DOMAIN store.inventory :
           /\ store.inventory[a].quantity = MaxQuantity
           /\ store.inventory[a].metadata = <<"json", "m">>
           /\ store.inventory[b].metadata = <<"null">>

\* C16: for every authenticated player, item and quantity, RemoveItem answers
\* 404 and leaves the store unchanged when the player has no entry for the
\* item; otherwise it answers 200, and the store differs from the one before
\* in exactly that entry: gone when the quantity asked is at least the stored
\* one (so asking for more than is owned succeeds and leaves no row), lowered
\* by the quantity asked otherwise.
C16_RemoveItem ==
    \A token \in Tokens, item \in ItemNames, quantity \in Quantities :
        LET auth == requireAuth(store, token)
            key == <<auth.player, item>>
            r == RemoveItem(store, token, item, quantity)
        IN  auth.status = 200 =>
                IF key \notin DOMAIN store.inventory
                THEN r.resp.status = 404 /\ r.store = store
                ELSE /\ r.resp.status = 200
                     /\ IF quantity >= store.inventory[key].quantity
                        THEN /\ key \notin DOMAIN r.store.inventory
                             /\ r.store = [store EXCEPT !.inventory =
                                    [k \in DOMAIN @ \ {key} |-> @[k]]]
                        ELSE r.store =
                                 [store EXCEPT !.inventory[key].quantity = @ - quantity]

\* A remove has just deleted the last inventory row there was.
C16_Witness ==
    /\ resp.op = "inventory/remove" /\ resp.status = 200
    /\ DOMAIN store.inventory = {}
    /\ Cardinality(Players) = 2

\* C17: after any sequence of AddItem, RemoveItem and the owner's inventory
\* give with any integer quantities, every stored inventory entry has
\* quantity >= 1.
C17_QuantityPositive ==
    \A key \in DOMAIN store.inventory : store.inventory[key].quantity >= 1

\* C18: for every authenticated player, item and quantity n >= 1, AddItem of
\* n followed by RemoveItem of n leaves the player's entry for the item as it
\* was before the two: no row if there was none, the same row if there was one.
C18_AddRemoveRoundTrip ==
    \A token \in Tokens, item \in ItemNames, n \in 1 .. MaxQuantity,
       metadata \in Metadatas :
        LET auth == requireAuth(store, token)
            key == <<auth.player, item>>
            added == AddItem(store, token, item, n, metadata)
            removed == RemoveItem(added.store, token, item, n)
        IN  auth.status = 200 =>
                /\ added.resp.status = 200
                /\ removed.resp.status = 200
                /\ IF key \in DOMAIN store.inventory
                   THEN /\ key \in DOMAIN removed.store.inventory
                        /\ removed.store.inventory[key] = store.inventory[key]
                   ELSE key \notin DOMAIN removed.store.inventory

\* C19: for every authenticated player, cosmetic id and flag, EquipCosmetic
\* answers 403 and leaves the store unchanged when the player does not own the
\* cosmetic; otherwise it answers 200 and the store differs from the one
\* before in exactly the equipped flag of the row (player, cosmetic), which is
\* the flag given: the set of ownership rows, every other row (the player's
\* other cosmetics included) and every balance stay as they were.
C19_EquipFlipsOneFlag ==
    \A token \in Tokens, c \in CosmeticIds \cup {UnknownCosmetic}, e \in BOOLEAN :
        LET auth == requireAuth(store, token)
            key == <<auth.player, c>>
            r == EquipCosmetic(store, token, c, e)
        IN  auth.status = 200 =>
                IF key \notin DOMAIN store.cosmetics
                THEN r.resp.status = 403 /\ r.store = store
                ELSE /\ r.resp.status = 200
                     /\ r.store.cosmetics[key].equipped = (IF e THEN 1 ELSE 0)
                     /\ DOMAIN r.store.cosmetics = DOMAIN store.cosmetics
                     /\ \A k \in DOMAIN store.cosmetics \ {key} :
                            r.store.cosmetics[k] = store.cosmetics[k]
                     /\ r.store.players = store.players
                     /\ r.store = [store EXCEPT !.cosmetics = r.store.cosmetics]

\* An equip has succeeded for a player who wears one of two owned cosmetics,
\* while another player id holds a row.
C19_Witness ==
    /\ resp.op = "equip" /\ resp.status = 200
    /\ \E id \in Players :
           /\ \E a, b \in DOMAIN store.cosmetics :
                  /\ a[1] = id /\ b[1] = id
                  /\ store.cosmetics[a].equipped = 1
                  /\ store.cosmetics[b].equipped = 0
           /\ \E k \in DOMAIN store.cosmetics : k[1] # id

\* C20: for every player id and cosmetic id, the owner's GrantCosmetic answers
\* 200; when the row (player, cosmetic) exists the store stays as it was, the
\* row's equipped flag and every balance with it; when it does not, the store
\* gains exactly that row, with equipped = 0; and the same grant made again
\* answers 200 and leaves the store of the first grant.
C20_GrantIdempotent ==
    \A player_id \in Players \cup {UnknownPlayer},
       c \in CosmeticIds \cup {UnknownCosmetic} :
        LET key == <<player_id, c>>
            once == GrantCosmetic(store, OWNER_PASSWORD, player_id, c)
            twice == GrantCosmetic(once.store, OWNER_PASSWORD, player_id, c)
        IN  /\ once.resp.status = 200
            /\ twice.resp.status = 200
            /\ twice.store = once.store
            /\ IF key \in DOMAIN store.cosmetics
               THEN once.store = store
               ELSE once.store =
                        [store EXCEPT !.cosmetics = @ @@ (key :> [equipped |-> 0])]

\* A grant has succeeded and added no row: every row there is is worn, which
\* a row just inserted is not.
C20_Witness ==
    /\ resp.op = "owner/cosmetics/grant" /\ resp.status = 200
    /\ DOMAIN store.cosmetics # {}
    /\ \A k \in DOMAIN store.cosmetics : store.cosmetics[k].equipped = 1

\* The rows of the three dependent tables keyed to a player id.
DependentRows(s, id) ==
    {k \in DOMAIN s.data : k[1] = id}
        \cup {k \in DOMAIN s.cosmetics : k[1] = id}
        \cup {k \in DOMAIN s.inventory : k[1] = id}

\* C21: in every state, the ones between two statements of a deletion and
\* after a stop there included, a player id whose players row is gone has no
\* inventory, player_cosmetics or player_data row; and a deletion that runs to
\* its end, by DELETE /owner/player/:id or by /owner/bulk/delete, leaves
\* neither the players row nor any such row of the id.
C21_DeleteCleansUp ==
    /\ \A id \in PlayerIds : id \notin Players => DependentRows(store, id) = {}
    /\ \A id \in Players :
           LET r == DeletePlayer(store, OWNER_PASSWORD, id)
           IN  /\ r.resp.status = 200
               /\ id \notin DOMAIN r.store.players
               /\ DependentRows(r.store, id) = {}
               /\ BulkDelete(store, OWNER_PASSWORD, <<id>>).store = r.store

\* A deletion has run to its end while another player id holds rows.
C21_Witness ==
    /\ resp.op = "owner/player/delete" /\ resp.status = 200
    /\ running = Idle
    /\ \E id \in PlayerIds : id <= uuid.player /\ id \notin Players
    /\ DependentRows(store, UnknownPlayer) # {}

\* A step that ends a batch, by its commit or by a stop, leaves the store of
\* before the batch or the store with the mutation applied to every id.
BatchEndsWhole ==
    (running.op = "bulk" /\ running'.op # "bulk") =>
        \/ store' = running.before
        \/ store' = BulkTx(running.before, running.kind, running.arg, running.all)

\* While a batch is under way no other request is answered.
BatchRunsAlone ==
    (running.op = "bulk" /\ running'.op = "bulk") => resp' = resp

\* C22: BulkBan, BulkAddCredits and BulkDelete are all-or-nothing over the
\* batch: no request is handled between two ids of a batch, and whenever a
\* batch ends, committed or stopped part-way, the store is either the one
\* before the batch or the one with the mutation applied to all its ids.
C22_BulkAllOrNothing == [][BatchEndsWhole /\ BatchRunsAlone]_vars

\* A batch is part-way: its first id has been written, its next has not.
C22_Witness ==
    /\ running.op = "bulk"
    /\ running.ids # <<>>
    /\ running.ids # running.all
    /\ store # running.before
    /\ Cardinality(Players) = 2

InBatch(ids) == {ids[i] : i \in DOMAIN ids}

Occurrences(ids, id) == Cardinality({i \in DOMAIN ids : ids[i] = id})

\* The store with the players rows of every id in the batch rewritten by row(id).
WithPlayers(ids, row(_)) ==
    [store EXCEPT !.players =
        [id \in Players |-> IF id \in InBatch(ids) THEN row(id) ELSE store.players[id]]]

\* C23: for every non-empty batch, ids no player has included: BulkBan and
\* BulkAddCredits answer 200, write the flag (add the amount, once per
\* occurrence) to the row of every id of the batch a player has, and change
\* nothing else, so no row appears for an unknown id; BulkDelete answers 200,
\* leaves no players row and no inventory, player_cosmetics or player_data row
\* of any id of the batch, known or not, leaves the rows of every other id,
\* and run again on its own result changes nothing.
C23_BulkUnknownIds ==
    \A ids \in BulkLists \ {<<>>} :
        /\ \A banned \in BOOLEAN :
               LET r == BulkBan(store, OWNER_PASSWORD, ids, banned)
                   row(id) == [store.players[id] EXCEPT
                                   !.banned = IF banned THEN 1 ELSE 0]
               IN  r.resp.status = 200 /\ r.store = WithPlayers(ids, row)
        /\ \A amount \in Amounts \ {0} :
               LET r == BulkAddCredits(store, OWNER_PASSWORD, ids, amount)
                   row(id) == [store.players[id] EXCEPT
                                   !.credits = @ + amount * Occurrences(ids, id)]
               IN  r.resp.status = 200 /\ r.store = WithPlayers(ids, row)
        /\ LET r == BulkDelete(store, OWNER_PASSWORD, ids)
               kept(f) == [k \in {x \in DOMAIN f : x[1] \notin InBatch(ids)} |-> f[k]]
           IN  /\ r.resp.status = 200
               /\ \A id \in InBatch(ids) :
                      id \notin DOMAIN r.store.players /\ DependentRows(r.store, id) = {}
               /\ r.store =
                      [store EXCEPT
                          !.players = [id \in Players \ InBatch(ids) |-> @[id]],
                          !.data = kept(@), !.cosmetics = kept(@), !.inventory = kept(@)]
               /\ BulkDelete(r.store, OWNER_PASSWORD, ids).store = r.store

\* A batch naming an unknown id between the two players has banned both,
\* while the unknown id holds an inventory row and no players row.
C23_Witness ==
    /\ resp.op = "owner/bulk/ban" /\ resp.status = 200
    /\ Cardinality(Players) = 2
    /\ \A id \in Players : store.players[id].banned = 1
    /\ UnknownPlayer \notin Players
    /\ \E k \in DOMAIN store.inventory : k[1] = UnknownPlayer

\* The single-player owner route of a bulk kind, applied to one id.
Single(s, kind, arg, id) ==
    CASE kind = "ban" -> Ban(s, OWNER_PASSWORD, id, arg # 0).store
      [] kind = "credits" -> AdminGive(s, OWNER_PASSWORD, id, arg).store
      [] kind = "delete" -> DeletePlayer(s, OWNER_PASSWORD, id).store

RECURSIVE InOrder(_, _, _, _)
InOrder(s, kind, arg, ids) ==
    IF ids = <<>>
    THEN s
    ELSE InOrder(Single(s, kind, arg, Head(ids)), kind, arg, Tail(ids))

\* C24: for every batch, repeated ids and ids no player has included, the
\* store a bulk route leaves is the store left by calling /owner/ban,
\* /owner/credits/give or DELETE /owner/player/:id once per id of the batch, in
\* the batch's order, from the same store.
C24_BulkIsSequence ==
    \A ids \in BulkLists, kind \in BulkKinds, arg \in Amounts :
        Bulk(store, OWNER_PASSWORD, kind, ids, arg).store = InOrder(store, kind, arg, ids)

\* A batch naming player 2 twice has credited that player twice, and the
\* other player never.
C24_Witness ==
    /\ resp.op = "owner/bulk/credits" /\ resp.status = 200
    /\ Cardinality(Players) = 2
    /\ store.players[1].credits = 0
    /\ store.players[2].credits = 2

Min(a, b) == IF a <= b THEN a ELSE b

\* C25: for every game and every limit that is a count, every leaderboard
\* /leaderboard/credits may answer has min(limit, k) rows, k the number of
\* players of the game with banned = 0; its rows are distinct such players
\* with their balances, in non-increasing balance order, the row at position
\* i has rank i, and no such player left out has more than a player listed.
C25_TopByCredits ==
    \A game_id \in GameIds, limit \in {l \in Limits : l >= 0} :
        LET eligible == {id \in Players : /\ store.players[id].game_id = game_id
                                          /\ store.players[id].banned = 0}
            boards == Leaderboards(store, game_id, limit)
        IN  /\ TopByCredits(store, game_id, limit).resp.status = 200
            /\ boards # {}
            /\ \A board \in boards :
                   /\ Len(board) = Min(limit, Cardinality(eligible))
                   /\ \A i \in DOMAIN board :
                          /\ board[i].rank = i
                          /\ board[i].player_id \in eligible
                          /\ board[i].credits = store.players[board[i].player_id].credits
                          /\ \A j \in DOMAIN board :
                                 i < j => /\ board[i].player_id # board[j].player_id
                                          /\ board[i].credits >= board[j].credits
                          /\ \A id \in eligible :
                                 (\A j \in DOMAIN board : board[j].player_id # id)
                                     => store.players[id].credits <= board[i].credits

\* A leaderboard was answered while the later of two unbanned players of one
\* game holds the higher balance, so a limit of 1 lists that player alone.
C25_Witness ==
    /\ resp.op = "leaderboard/credits" /\ resp.status = 200
    /\ Cardinality(Players) = 2
    /\ \A id \in Players : store.players[id].game_id = "g1" /\ store.players[id].banned = 0
    /\ store.players[2].credits > store.players[1].credits
    /\ \E board \in Leaderboards(store, "g1", 1) :
           Len(board) = 1 /\ board[1].player_id = 2

\* C26: for a player p with a valid token and a username, /friends/request
\* answers 404 and changes nothing when no player of p's game has the
\* username, answers 400 and changes nothing when the username is p's own,
\* and otherwise answers 200, adding the row (p, f) as pending when there is
\* no row (p, f) and changing nothing when there is one.
C26_RequestFriend ==
    \A token \in Tokens, username \in Usernames :
        requireAuth(store, token).status = 200 =>
            LET p == requireAuth(store, token).player
                named == {id \in Players :
                             /\ store.players[id].game_id = store.players[p].game_id
                             /\ store.players[id].username = username}
                r == RequestFriend(store, token, username)
            IN  IF named = {}
                THEN r.resp.status = 404 /\ r.store = store
                ELSE IF p \in named
                THEN r.resp.status = 400 /\ r.store = store
                ELSE /\ r.resp.status = 200
                     /\ \E f \in named :
                            IF <<p, f>> \in DOMAIN store.friends
                            THEN r.store = store
                            ELSE r.store = [store EXCEPT
                                               !.friends = @ @@ (<<p, f>> :> "pending")]

\* A request was answered 200 while the only row is (1, 2), accepted: player 1
\* asked again for a friend already accepted and the row stayed.
C26_Witness ==
    /\ resp.op = "friends/request" /\ resp.status = 200
    /\ DOMAIN store.friends = {<<1, 2>>}
    /\ store.friends[<<1, 2>>] = "accepted"

\* C27: whenever the row (f, p) is pending and p holds a valid token,
\* /friends/accept by p with friend_id f answers 200 and leaves both rows
\* (f, p) and (p, f) accepted, whatever the row (p, f) was before, so that f is
\* in the list GET /friends gives p and p in the list it gives f.
C27_AcceptEstablishesBoth ==
    \A token \in Tokens, f \in Players :
        LET auth == requireAuth(store, token)
            p == auth.player
        IN  (/\ auth.status = 200
             /\ <<f, p>> \in DOMAIN store.friends
             /\ store.friends[<<f, p>>] = "pending")
                => LET r == AcceptFriend(store, token, f)
                   IN  /\ r.resp.status = 200
                       /\ <<f, p>> \in DOMAIN r.store.friends
                       /\ r.store.friends[<<f, p>>] = "accepted"
                       /\ <<p, f>> \in DOMAIN r.store.friends
                       /\ r.store.friends[<<p, f>>] = "accepted"
                       /\ f \in FriendRows(r.store, p)
                       /\ p \in FriendRows(r.store, f)

\* C28: in every state, a player f is in the list GET /friends gives p only
\* if both rows (p, f) and (f, p) exist and are accepted.
C28_ListedOnlyIfMutual ==
    \A p \in Players :
        \A f \in FriendRows(store, p) :
            /\ <<p, f>> \in DOMAIN store.friends /\ store.friends[<<p, f>>] = "accepted"
            /\ <<f, p>> \in DOMAIN store.friends /\ store.friends[<<f, p>>] = "accepted"

Refused(r) == r.resp.status # 200 => r.store = store

\* Every route, on every input, either answers 200 or returns the store it
\* was given.
RefusalsChangeNothing ==
    /\ \A game_id \in GameIds \cup {""}, username \in Usernames \cup {""},
          password \in Passwords \cup {""} :
           /\ Refused(Register(store, game_id, username, password,
                               uuid.player + 1, uuid.token + 1))
           /\ Refused(Login(store, game_id, username, password, uuid.token + 1))
    /\ \A token \in Tokens \cup {NoToken} :
           /\ \A amount \in Amounts :
                  Refused(Spend(store, token, amount)) /\ Refused(Add(store, token, amount))
           /\ \A item_name \in ItemNames \cup {""}, quantity \in Quantities :
                  /\ Refused(AddItem(store, token, item_name, quantity, "m"))
                  /\ Refused(RemoveItem(store, token, item_name, quantity))
           /\ \A cosmetic_id \in 0 .. UnknownCosmetic :
                  /\ Refused(BuyCosmetic(store, token, cosmetic_id))
                  /\ \A equipped \in BOOLEAN :
                         Refused(EquipCosmetic(store, token, cosmetic_id, equipped))
           /\ \A username \in Usernames \cup {""} :
                  Refused(RequestFriend(store, token, username))
           /\ \A friend_id \in 0 .. UnknownPlayer :
                  Refused(AcceptFriend(store, token, friend_id))
           /\ \A data \in SaveBodies : Refused(Save(store, token, data))
    /\ \A key \in OwnerKeys, player_id \in 0 .. UnknownPlayer :
           /\ \A amount \in Amounts :
                  /\ Refused(AdminGive(store, key, player_id, amount))
                  /\ Refused(AdminSet(store, key, player_id, amount))
           /\ \A banned \in BOOLEAN : Refused(Ban(store, key, player_id, banned))
           /\ \A new_password \in Passwords \cup {""} :
                  Refused(AdminResetPassword(store, key, player_id, new_password,
                                             uuid.token + 1))
           /\ \A cosmetic_id \in 0 .. UnknownCosmetic :
                  Refused(GrantCosmetic(store, key, player_id, cosmetic_id))
           /\ \A item_name \in ItemNames \cup {""}, quantity \in Quantities :
                  Refused(AdminGiveItem(store, key, player_id, item_name, quantity))
           /\ Refused(DeletePlayer(store, key, player_id))
    /\ \A key \in OwnerKeys :
           /\ \A game_id \in GameIds \cup {""}, price \in Prices :
                  Refused(CreateCosmetic(store, key, game_id, price, uuid.cosmetic + 1))
           /\ \A kind \in BulkKinds, player_ids \in BulkLists, arg \in Amounts :
                  Refused(Bulk(store, key, kind, player_ids, arg))

\* A step that is a whole request answered with an error status.
RefusalStep ==
    (running = Idle /\ running' = Idle /\ resp'.status \notin {0, 200}) => store' = store

\* C29: every route, on every input, answers 200 or leaves the store as it
\* was given (players, catalog, player_cosmetics, inventory,
\* friend_relationships and player_data all equal), and every request of a
\* behaviour answered with an error status leaves the store as it was.
C29_ErrorsChangeNothing == []RefusalsChangeNothing /\ [][RefusalStep]_vars

\* /credits/spend has just refused two credits to a player who holds one
\* and owns a cosmetic.
C29_Witness ==
    /\ resp.op = "spend" /\ resp.status = 400 /\ resp.error = "Not enough credits"
    /\ 1 \in Players /\ store.players[1].credits = 1
    /\ store.cosmetics # EmptyFn

\* C30: in every state, every player_cosmetics row, each written by
\* /cosmetics/buy, joins a player and a catalog row of the same game_id.
C30_BuyWithinGame ==
    \A key \in DOMAIN store.cosmetics :
        (key[1] \in Players /\ key[2] \in DOMAIN store.catalog)
            => store.catalog[key[2]].game_id = store.players[key[1]].game_id

\* C31: in every state every cosmetics_catalog row has price >= 0, and a
\* /cosmetics/buy answered 200 leaves the buyer's credits no higher than
\* they were.
C31_PriceNonNegative ==
    /\ \A id \in DOMAIN store.catalog : store.catalog[id].price >= 0
    /\ \A token \in Tokens, cosmetic_id \in DOMAIN store.catalog :
           LET r == BuyCosmetic(store, token, cosmetic_id)
           IN  r.resp.status = 200 =>
                   r.store.players[r.resp.player].credits
                       <= store.players[r.resp.player].credits

\* Calls of the player routes, as route and body.
PlayerOps ==
    [route : {"spend"}, amount : {1, MaxAmount}]
        \cup [route : {"add"}, amount : {1}]
        \cup [route : {"inventory/add"}, item_name : ItemNames, metadata : {"m"}]
        \cup [route : {"inventory/remove"}, item_name : ItemNames, quantity : {1}]
        \cup [route : {"buy"}, cosmetic_id : CosmeticIds]
        \cup [route : {"equip"}, cosmetic_id : CosmeticIds, equipped : BOOLEAN]

Call(s, token, op) ==
    CASE op.route = "spend" -> Spend(s, token, op.amount)
      [] op.route = "add" -> Add(s, token, op.amount)
      [] op.route = "inventory/add" -> AddItem(s, token, op.item_name, 1, op.metadata)
      [] op.route = "inventory/remove" ->
             RemoveItem(s, token, op.item_name, op.quantity)
      [] op.route = "buy" -> BuyCosmetic(s, token, op.cosmetic_id)
      [] op.route = "equip" -> EquipCosmetic(s, token, op.cosmetic_id, op.equipped)

\* The rows of a player: the players row, the inventory and player_cosmetics rows.
RowsOf(s, id) ==
    [player |-> s.players[id],
     inventory |-> [k \in {x \in DOMAIN s.inventory : x[1] = id} |-> s.inventory[k]],
     cosmetics |-> [k \in {x \in DOMAIN s.cosmetics : x[1] = id} |-> s.cosmetics[k]]]

\* C32: for two different players holding valid tokens and any two calls of
\* the player routes, one by each, either player's call leaves the other
\* player's players row (credits, token, banned), inventory rows and
\* player_cosmetics rows as they were, and the two calls made in either order
\* leave the same store and get the same two responses.
C32_PlayersCommute ==
    \A tp, tq \in Tokens :
        LET ap == requireAuth(store, tp)
            aq == requireAuth(store, tq)
        IN  (ap.status = 200 /\ aq.status = 200 /\ ap.player < aq.player) =>
                \A a, b \in PlayerOps :
                    LET ra == Call(store, tp, a)
                        rb == Call(store, tq, b)
                        rab == Call(ra.store, tq, b)
                        rba == Call(rb.store, tp, a)
                    IN  /\ RowsOf(ra.store, aq.player) = RowsOf(store, aq.player)
                        /\ RowsOf(rb.store, ap.player) = RowsOf(store, ap.player)
                        /\ rab.store = rba.store
                        /\ rab.resp = rb.resp
                        /\ rba.resp = ra.resp

\* alice has just removed her last sword while bob still holds his, and each
\* of the two has credits and owns the cosmetic.
C32_Witness ==
    /\ resp.op = "inventory/remove" /\ resp.status = 200
    /\ <<1, "sword">> \notin DOMAIN store.inventory
    /\ <<2, "sword">> \in DOMAIN store.inventory
    /\ <<1, 1>> \in DOMAIN store.cosmetics /\ <<2, 1>> \in DOMAIN store.cosmetics
    /\ store.players[1].credits > 0 /\ store.players[2].credits > 0

\* /owner/ban and /owner/bulk/ban on a player write that row's banned flag
\* and nothing else, and after a ban followed by an unban the token stored
\* before the two passes requireAuth as that player.
BanKeepsToken ==
    \A id \in Players :
        /\ \A banned \in BOOLEAN :
               LET flagged == [store EXCEPT
                                  !.players[id].banned = IF banned THEN 1 ELSE 0]
               IN  /\ Ban(store, OWNER_PASSWORD, id, banned).store = flagged
                   /\ BulkBan(store, OWNER_PASSWORD, <<id>>, banned).store = flagged
        /\ store.players[id].token # NoToken =>
               LET token == store.players[id].token
                   single == Ban(Ban(store, OWNER_PASSWORD, id, TRUE).store,
                                 OWNER_PASSWORD, id, FALSE).store
                   bulk == BulkBan(BulkBan(store, OWNER_PASSWORD, <<id>>, TRUE).store,
                                   OWNER_PASSWORD, <<id>>, FALSE).store
               IN  /\ requireAuth(Ban(store, OWNER_PASSWORD, id, TRUE).store,
                                  token).status = 403
                   /\ requireAuth(single, token).status = 200
                   /\ requireAuth(single, token).player = id
                   /\ requireAuth(bulk, token).status = 200
                   /\ requireAuth(bulk, token).player = id

\* A step with no Login and no AdminResetPassword keeps every player's token.
TokensStay ==
    \A id \in Players :
        id \in DOMAIN store'.players => store'.players[id].token = store.players[id].token

\* C33: banning or unbanning a player, by /owner/ban or /owner/bulk/ban,
\* changes only the banned flag of that row; while nobody logs in or has a
\* password reset every stored token stays, so that after ban and unban the
\* token held before the ban authenticates as the same player.
C33_UnbanRestoresToken == []BanKeepsToken /\ [][TokensStay]_vars

\* A batch has banned alice and bob, alice having spent with her token
\* before, and each still has the token registered with.
C33_Witness ==
    /\ resp.op = "owner/bulk/ban" /\ resp.status = 200
    /\ Players = {1, 2}
    /\ \A id \in Players : store.players[id].banned = 1 /\ store.players[id].token = id
    /\ store.players[1].credits < 2

AcceptedStays ==
    \A edge \in DOMAIN store.friends :
        store.friends[edge] = "accepted" =>
            edge \in DOMAIN store'.friends /\ store'.friends[edge] = "accepted"

\* C34: in every step of /friends/request and /friends/accept, with any
\* caller and body, a friend_relationships row that is accepted before the
\* step exists and is accepted after it.
C34_AcceptedIsFinal == [][AcceptedStays]_vars

\* bob's request was answered 200 after alice's row (1, 2) was accepted: the
\* row (2, 1) is pending and (1, 2) is still accepted.
C34_Witness ==
    /\ resp.op = "friends/request" /\ resp.status = 200
    /\ <<1, 2>> \in DOMAIN store.friends /\ store.friends[<<1, 2>>] = "accepted"
    /\ <<2, 1>> \in DOMAIN store.friends /\ store.friends[<<2, 1>>] = "pending"

\* C35: in every state reached by /friends/request and /friends/accept, no
\* friend_relationships row has player_id = friend_id, and both ids of every
\* row are players, of one game.
C35_EdgesWithinGame ==
    \A edge \in DOMAIN store.friends :
        /\ edge[1] # edge[2]
        /\ edge[1] \in Players /\ edge[2] \in Players
        /\ store.players[edge[1]].game_id = store.players[edge[2]].game_id

\* C36: in every state every inventory row and every player_cosmetics row
\* names a player that exists, and every player_cosmetics row names a
\* cosmetic that is in the catalog.
C36_ReferentialIntegrity ==
    /\ \A key \in DOMAIN store.inventory : key[1] \in Players
    /\ \A key \in DOMAIN store.cosmetics :
           key[1] \in Players /\ key[2] \in DOMAIN store.catalog

====
